---- MODULE Spec2Model ----
(***************************************************************************)
(* A model of llmem's storage layer.                                       *)
(*                                                                         *)
(*   Spec        the Entity Store (ContextStore): create / read / update / *)
(*               delete over the file tree, the best-effort index call and *)
(*               the optional commit, with failing collaborators.          *)
(*   IdSpec      the Entity Store with callers that name ids in metadata   *)
(*               partials, and ids that share their first 8 characters.    *)
(*   UpdateSpec  update with every kind of partial, on a running clock.    *)
(*   SyncSpec    the Replication & Sync Manager (RemoteGitStore):          *)
(*               initialize (with bootstrap-replace), pull (with automatic *)
(*               conflict resolution) and push.                            *)
(*   ListSpec    the Entity Store and list(filter), on a running clock.    *)
(*   SearchSpec  the Entity Store and search(): the semantic channel, the  *)
(*               fusion, the text-only and the naive fallback.             *)
(*   ScorerSpec  the Relevance Scorer applied to a query and an entity.    *)
(*   WatchSpec   the Index Reconciler (FileWatcher) and files written by   *)
(*               other programs.                                           *)
(*   ConcSpec    two calls of the Entity Store on the same id, interleaved *)
(*               at their awaits.                                          *)
(*   LifecycleSpec  the background activities: initialize, watcher, sync   *)
(*               timer, cleanup, for every configuration.                  *)
(*   RemoteSpec  commit() and sync() of the RemoteGitStore.                *)
(*   ReconcileSpec  the Entity Store with the Reconciler watching its      *)
(*               files, index calls interleaved step by step.              *)
(*   PullersSpec the callers of pull(): initialize, the interval's         *)
(*               callbacks, syncWithRemote.                                *)
(*                                                                         *)
(* Strings are sequences of symbols.  A symbol is one character, except    *)
(* that an id is written as a sequence of 8-character blocks ("p1", "r1"), *)
(* so that id.substring(0, 8) is the first block of the id.                *)
(***************************************************************************)
EXTENDS Integers, Sequences, FiniteSets, TLC

VARIABLES
    files,        \* the file tree under contexts/: path -> stored file
    index,        \* the semantic index: id -> indexed entry
    now,          \* the clock read by new Date()
    issued,       \* the ids uuidv4() has returned so far
    autoCommit,   \* config.autoCommit
    call,         \* the Entity Store call in progress (or the last one's result)
    sync,         \* the state of the Sync Manager (see SyncSpec)
    parked,       \* a second Entity Store call, suspended at an await
    watcher,      \* the Index Reconciler (FileWatcher) and its pending events
    background,   \* ContextStore's background sync timer and configuration
    remote        \* a commit() or sync() of the Sync Manager in progress

vars == <<files, index, now, issued, autoCommit, call, sync,
          parked, watcher, background, remote>>

----------------------------------------------------------------------------
(* Bounds of the model.                                                    *)

MaxClock == 1

MaxFiles == 2

(* Program constants.                                                      *)

TitleMax == 50

----------------------------------------------------------------------------
(* The values the calls are drawn from.                                    *)

\* Two ids share their first 8 characters, a third does not.
Ids == { <<"p1", "r1">>, <<"p1", "r2">>, <<"p2", "r1">> }

NoCtx == [none |-> TRUE]

EmptyMap == [x \in {} |-> x]

\* Metadata partials (Partial<ContextMetadata>): a record that has exactly
\* the keys the caller named.
IdPartials == { [id |-> i] : i \in Ids }

\* What a specification draws its calls from: the arguments of create and
\* update, the ids uuidv4() returns (in this order: it never returns an id
\* twice, and which id it returns is up to it), config.autoCommit, and
\* whether file system, index and git calls may fail.

\* The Entity Store with failing collaborators.
CrudInputs ==
    [ titles   |-> { <<"A">> },
      contents |-> { <<"x">> },
      types    |-> { <<"w">> },
      metas    |-> { EmptyMap },
      dirs     |-> { <<>> },
      updates  |-> { [content |-> <<"y">>] },
      uuids    |-> << <<"p1", "r1">>, <<"p2", "r1">> >>,
      autoCommits |-> BOOLEAN,
      faults   |-> TRUE ]

\* Ids: callers that name an id in a metadata partial, and ids that share
\* their first 8 characters.  The title "p2!" spells, sanitized, the 8
\* characters the id p2-r1 starts with.
IdInputs ==
    [ titles   |-> { <<"A">>, <<"p2", "!">> },
      contents |-> { <<"x">> },
      types    |-> { <<"w">> },
      metas    |-> {EmptyMap} \cup IdPartials,
      dirs     |-> { <<>> },
      updates  |-> { [metadata |-> m] : m \in IdPartials },
      uuids    |-> << <<"p1", "r1">>, <<"p1", "r2">>, <<"p2", "r1">> >>,
      autoCommits |-> {FALSE},
      faults   |-> FALSE ]

\* update with every kind of partial, on a running clock.
UpdateInputs ==
    [ titles   |-> { <<"a", " ", "b">> },
      contents |-> { <<"x">> },
      types    |-> { <<"w", "/", "p">> },
      metas    |-> { EmptyMap },
      dirs     |-> { <<>> },
      updates  |-> { [content |-> <<>>], [content |-> <<"y">>],
                     [metadata |-> [title |-> <<"A">>]],
                     [metadata |-> [type |-> <<"w">>]],
                     [metadata |-> [tags |-> << <<"t">> >>]] },
      uuids    |-> << <<"p1", "r1">> >>,
      autoCommits |-> BOOLEAN,
      faults   |-> TRUE ]

----------------------------------------------------------------------------
(* String helpers.                                                         *)

Min(a, b) == IF a < b THEN a ELSE b

Substring(s, n) == SubSeq(s, 1, Min(Len(s), n))

\* String.prototype.includes
Includes(s, sub) ==
    \E i \in 0..(Len(s) - Len(sub)) : SubSeq(s, i + 1, i + Len(sub)) = sub

EndsWith(s, suffix) ==
    /\ Len(s) >= Len(suffix)
    /\ SubSeq(s, Len(s) - Len(suffix) + 1, Len(s)) = suffix

ToLowerCase(s) ==
    [i \in 1..Len(s) |-> CASE s[i] = "A" -> "a" [] s[i] = "T" -> "t" [] OTHER -> s[i]]

IsAlnum(c) == c \in {"a", "b", "x", "y", "w", "p", "t", "p1", "p2", "r1", "r2"}

IsSpace(c) == c \in {" ", "\n"}

RECURSIVE StripLeading(_, _)
StripLeading(s, c) ==
    IF s # <<>> /\ Head(s) = c THEN StripLeading(Tail(s), c) ELSE s

RECURSIVE StripTrailing(_, _)
StripTrailing(s, c) ==
    IF s # <<>> /\ s[Len(s)] = c
    THEN StripTrailing(SubSeq(s, 1, Len(s) - 1), c)
    ELSE s

RECURSIVE DropNonAlnum(_)
DropNonAlnum(s) ==
    IF s # <<>> /\ ~IsAlnum(Head(s)) THEN DropNonAlnum(Tail(s)) ELSE s

\* replace(/[^a-z0-9]+/g, '-')
RECURSIVE HyphenateRuns(_)
HyphenateRuns(s) ==
    IF s = <<>> THEN <<>>
    ELSE IF IsAlnum(Head(s)) THEN <<Head(s)>> \o HyphenateRuns(Tail(s))
    ELSE <<"-">> \o HyphenateRuns(DropNonAlnum(Tail(s)))

\* replace(/\.\./g, '')
RECURSIVE RemoveDotDot(_)
RemoveDotDot(s) ==
    IF Len(s) < 2 THEN s
    ELSE IF s[1] = "." /\ s[2] = "." THEN RemoveDotDot(SubSeq(s, 3, Len(s)))
    ELSE <<Head(s)>> \o RemoveDotDot(Tail(s))

\* String.prototype.trim
RECURSIVE TrimLeft(_)
TrimLeft(s) == IF s # <<>> /\ IsSpace(Head(s)) THEN TrimLeft(Tail(s)) ELSE s

RECURSIVE TrimRight(_)
TrimRight(s) ==
    IF s # <<>> /\ IsSpace(s[Len(s)])
    THEN TrimRight(SubSeq(s, 1, Len(s) - 1))
    ELSE s

Trim(s) == TrimRight(TrimLeft(s))

----------------------------------------------------------------------------
(* MarkdownParser.                                                         *)

\* The shallow merge { ...a, ...b } of two objects.
Spread(a, b) ==
    [k \in (DOMAIN a) \cup (DOMAIN b) |-> IF k \in DOMAIN b THEN b[k] ELSE a[k]]

CreateNewContext(title, content, type, additionalMetadata, uuid, t) ==
    [ metadata |-> Spread([ id |-> uuid, title |-> title, type |-> type,
                            tags |-> <<>>, created |-> t, updated |-> t ],
                          additionalMetadata),
      content |-> content ]

\* matter.stringify: the front matter, then the body, which ends in a newline.
Stringify(context) ==
    [ data |-> context.metadata,
      body |-> IF context.content # <<>>
                  /\ context.content[Len(context.content)] = "\n"
               THEN context.content
               ELSE context.content \o <<"\n">> ]

Parse(file, filepath) ==
    [ metadata |-> file.data, content |-> Trim(file.body), filepath |-> filepath ]

----------------------------------------------------------------------------
(* ContextStore: paths and lookup.                                         *)

IdPrefix(id) == Substring(id, 1)

SanitizeTitle(title) ==
    Substring(StripTrailing(StripLeading(HyphenateRuns(ToLowerCase(title)), "-"), "-"),
              TitleMax)

SanitizeDir(directory) ==
    RemoveDotDot(StripTrailing(StripLeading(directory, "/"), "/"))

\* join(storePath, 'contexts', sanitizedDir, filename), below contexts/.
GenerateFilepath(context, customDirectory) ==
    LET filename == SanitizeTitle(context.metadata.title) \o <<"-">>
                    \o IdPrefix(context.metadata.id) \o <<".md">>
        directory == IF customDirectory # <<>> THEN customDirectory
                     ELSE context.metadata.type
        dir == SanitizeDir(directory)
    IN  IF dir = <<>> THEN filename ELSE dir \o <<"/">> \o filename

\* The files findContextFile parses and finds to carry the id; a file
\* that does not parse is skipped.
Matches(tree, id) ==
    { p \in DOMAIN tree :
        /\ EndsWith(p, <<".md">>)
        /\ Includes(p, IdPrefix(id))
        /\ "id" \in DOMAIN tree[p].data
        /\ tree[p].data.id = id }

\* walkDirectory visits the files in readdir order and the last match wins;
\* the order is fixed for an unchanged tree.
FindContextFile(tree, id) ==
    IF Matches(tree, id) = {} THEN <<>>
    ELSE CHOOSE p \in Matches(tree, id) : TRUE

Read(tree, id) ==
    IF FindContextFile(tree, id) = <<>> THEN NoCtx
    ELSE Parse(tree[FindContextFile(tree, id)], FindContextFile(tree, id))

WriteContext(tree, filepath, context) ==
    [p \in (DOMAIN tree) \cup {filepath} |->
        IF p = filepath THEN Stringify(context) ELSE tree[p]]

Unlink(tree, filepath) == [p \in (DOMAIN tree) \ {filepath} |-> tree[p]]

----------------------------------------------------------------------------
(* The semantic index (VectorStore), as far as the store's writes go.      *)

\* The collection maps an id to the number of entries it holds under it.
\* A collection that takes a second entry under an id it holds.
IndexAddAgain(idx, context) ==
    [i \in (DOMAIN idx) \cup {context.metadata.id} |->
        IF i # context.metadata.id THEN idx[i]
        ELSE IF i \in DOMAIN idx THEN idx[i] + 1 ELSE 1]

\* addContext: collection.add({ids: [context.metadata.id], ...}).  The
\* collection is keyed by id: an add under an id it holds adds nothing.
IndexAdd(idx, context) ==
    IF context.metadata.id \in DOMAIN idx THEN idx
    ELSE [i \in (DOMAIN idx) \cup {context.metadata.id} |->
            IF i = context.metadata.id
            THEN 1
            ELSE idx[i]]

IndexRemove(idx, id) == [i \in (DOMAIN idx) \ {id} |-> idx[i]]

\* updateContext removes the entry and adds it again; either call may throw.
IndexOutcomes == {"ok", "throw"}

IndexUpdateOutcomes == {"ok", "throwRemove", "throwAdd"}

IndexUpdate(idx, context, outcome) ==
    CASE outcome = "ok" -> IndexAdd(IndexRemove(idx, context.metadata.id), context)
      [] outcome = "throwAdd" -> IndexRemove(idx, context.metadata.id)
      [] OTHER -> idx

----------------------------------------------------------------------------
(* ContextStore: the calls.  A call runs from one await to the next: the    *)
(* handler's entry (up to the file operation), the file operation, the     *)
(* index call, the commit.  call.pc is the handler's position.             *)

Idle ==
    [ op |-> "none", pc |-> "idle", id |-> <<>>, upd |-> EmptyMap,
      existing |-> NoCtx, ctx |-> NoCtx, path |-> <<>>,
      kind |-> "none", fs |-> "none", idx |-> "none", git |-> "none" ]

\* What is left of a call once it has returned: its result and what its
\* steps met.
Returned(c, kind) ==
    [ Idle EXCEPT !.op = c.op, !.kind = kind, !.fs = c.fs, !.idx = c.idx,
                  !.git = c.git, !.path = c.path ]

IdsNamed(meta) == IF "id" \in DOMAIN meta THEN {meta.id} ELSE {}

IdsNamedIn(updates) ==
    IF "metadata" \in DOMAIN updates THEN IdsNamed(updates.metadata) ELSE {}

\* a || b on a property that may be missing: the empty string is falsy.
Truthy(obj, key) == key \in DOMAIN obj /\ obj[key] # <<>>

\* An update that leaves the updated timestamp as it was.
UpdatedContextStale(existing, updates, t) ==
    [ metadata |-> Spread(existing.metadata,
                          IF "metadata" \in DOMAIN updates
                          THEN updates.metadata ELSE EmptyMap),
      content |-> IF Truthy(updates, "content") THEN updates.content
                  ELSE existing.content,
      filepath |-> existing.filepath ]

\* The entity update() writes: { ...existing, content, metadata }.
UpdatedContext(existing, updates, t) ==
    [ metadata |-> Spread(Spread(existing.metadata,
                                 IF "metadata" \in DOMAIN updates
                                 THEN updates.metadata ELSE EmptyMap),
                          [updated |-> t]),
      content |-> IF Truthy(updates, "content") THEN updates.content
                  ELSE existing.content,
      filepath |-> existing.filepath ]

\* The clock of new Date() advances on its own.
Tick ==
    /\ now < MaxClock
    /\ now' = now + 1
    /\ UNCHANGED <<files, index, issued, autoCommit, call, sync,
                 parked, watcher, background, remote>>

\* uuidv4(): an id it has not returned before.
Uuidv4(uuids) ==
    IF Cardinality(issued) < Len(uuids) THEN {uuids[Cardinality(issued) + 1]} ELSE {}

\* create(): createNewContext and generateFilepath, up to writeContext.
CreateCall(in) ==
    \E title \in in.titles, content \in in.contents, type \in in.types,
       meta \in in.metas, dir \in in.dirs, uuid \in Uuidv4(in.uuids) :
        LET context == CreateNewContext(title, content, type, meta, uuid, now)
            filepath == GenerateFilepath(context, dir)
        IN  /\ call.pc = "idle"
            /\ IdsNamed(meta) \subseteq issued
            /\ filepath \in DOMAIN files \/ Cardinality(DOMAIN files) < MaxFiles
            /\ issued' = issued \cup {uuid}
            /\ call' = [ Idle EXCEPT !.op = "create", !.pc = "file",
                           !.ctx = [ metadata |-> context.metadata,
                                     content |-> context.content,
                                     filepath |-> filepath ],
                           !.path = filepath ]
            /\ UNCHANGED <<files, index, now, autoCommit, sync,
                 parked, watcher, background, remote>>

\* read(): findContextFile, readFile, parse.
ReadCall ==
    \E id \in Ids :
        /\ call.pc = "idle"
        /\ call' = [ Idle EXCEPT !.op = "read", !.id = id,
                       !.kind = IF Read(files, id) = NoCtx THEN "null" ELSE "entity",
                       !.ctx = Read(files, id) ]
        /\ UNCHANGED <<files, index, now, issued, autoCommit, sync,
                 parked, watcher, background, remote>>

\* update(): read, and the merged entity, up to writeContext.
UpdateCall(in) ==
    \E id \in Ids, updates \in in.updates :
        LET existing == Read(files, id)
        IN  /\ call.pc = "idle"
            /\ IdsNamedIn(updates) \subseteq issued
            /\ call' = IF existing = NoCtx
                       THEN [ Idle EXCEPT !.op = "update", !.id = id,
                                !.upd = updates, !.kind = "null" ]
                       ELSE [ Idle EXCEPT !.op = "update", !.pc = "file", !.id = id,
                                !.upd = updates, !.existing = existing,
                                !.ctx = UpdatedContext(existing, updates, now),
                                !.path = existing.filepath ]
            /\ UNCHANGED <<files, index, now, issued, autoCommit, sync,
                 parked, watcher, background, remote>>

\* delete(): findContextFile and read, up to unlink.
DeleteCall ==
    \E id \in Ids :
        LET filepath == FindContextFile(files, id)
        IN  /\ call.pc = "idle"
            /\ call' = IF filepath = <<>>
                       THEN [ Idle EXCEPT !.op = "delete", !.id = id, !.kind = "false" ]
                       ELSE [ Idle EXCEPT !.op = "delete", !.pc = "file", !.id = id,
                                !.existing = Read(files, id), !.path = filepath ]
            /\ UNCHANGED <<files, index, now, issued, autoCommit, sync,
                 parked, watcher, background, remote>>

\* A handler that does not await its file operation: it goes on to the
\* index call while the file is as it was.
FileStepUnawaited(in) ==
    /\ call.pc = "file"
    /\ call' = [call EXCEPT !.pc = "index"]
    /\ UNCHANGED <<files, index, now, issued, autoCommit, sync,
                   parked, watcher, background, remote>>

\* A handler that catches the error of its file operation and goes on.
FileFailedCaught(c) == [c EXCEPT !.pc = "index", !.fs = "error"]

\* await writeContext / await unlink rejects: nothing catches the error,
\* it rejects the call.
FileFailed(c) == Returned([c EXCEPT !.fs = "error"], "rejected")

\* writeContext (create, update) or unlink (delete): a file system error
\* rejects the call.
FileStep(in) ==
    /\ call.pc = "file"
    /\ \/ /\ files' = IF call.op = "delete" THEN Unlink(files, call.path)
                      ELSE WriteContext(files, call.path, call.ctx)
          /\ call' = [call EXCEPT !.pc = "index", !.fs = "ok"]
       \/ /\ in.faults
          /\ files' = files
          /\ call' = FileFailed(call)
    /\ UNCHANGED <<index, now, issued, autoCommit, sync,
                 parked, watcher, background, remote>>

NormalResult(op) == IF op = "delete" THEN "true" ELSE "entity"

IndexThrows == {"throw", "throwRemove", "throwAdd"}

\* A handler without the try/catch: an error of the index call rejects it.
AfterIndexUncaught(c, outcome) ==
    IF outcome \in IndexThrows THEN Returned([c EXCEPT !.idx = outcome], "rejected")
    ELSE IF autoCommit /\ (c.op # "delete" \/ c.existing # NoCtx)
    THEN [c EXCEPT !.pc = "commit", !.idx = outcome]
    ELSE Returned([c EXCEPT !.idx = outcome], NormalResult(c.op))

\* Where the handler goes after its try/catch around the index call.
AfterIndex(c, outcome) ==
    IF autoCommit /\ (c.op # "delete" \/ c.existing # NoCtx)
    THEN [c EXCEPT !.pc = "commit", !.idx = outcome]
    ELSE Returned([c EXCEPT !.idx = outcome], NormalResult(c.op))

\* hybridSearch.addContext / updateContext / removeContext, in try/catch.
IndexStep(in) ==
    /\ call.pc = "index"
    /\ \E outcome \in IF ~in.faults THEN {"ok"}
                      ELSE IF call.op = "update" THEN IndexUpdateOutcomes
                      ELSE IndexOutcomes :
          /\ index' = CASE call.op = "create" ->
                             IF outcome = "ok" THEN IndexAdd(index, call.ctx) ELSE index
                        [] call.op = "update" -> IndexUpdate(index, call.ctx, outcome)
                        [] OTHER ->
                             IF outcome = "ok" THEN IndexRemove(index, call.id) ELSE index
          /\ call' = AfterIndex(call, outcome)
    /\ UNCHANGED <<files, now, issued, autoCommit, sync,
                 parked, watcher, background, remote>>

\* A commit whose catch rethrows whatever it caught.
GitCommitRethrowsAll(outcome) == IF outcome = "ok" THEN "returns" ELSE "throws"

\* GitStore.commit: its catch logs an error whose message includes 'nothing
\* to commit' and rethrows any other.
GitCommit(outcome) == IF outcome = "fail" THEN "throws" ELSE "returns"

\* gitStore.add and gitStore.commit: done, "nothing to commit" (swallowed by
\* commit), or another git error, which propagates.
CommitStep ==
    /\ call.pc = "commit"
    /\ \E outcome \in {"ok", "nothing", "fail"} :
          call' = Returned([call EXCEPT !.git = outcome],
                           IF GitCommit(outcome) = "throws" THEN "rejected"
                           ELSE NormalResult(call.op))
    /\ UNCHANGED <<files, index, now, issued, autoCommit, sync,
                 parked, watcher, background, remote>>

NoSync == [none |-> TRUE]

\* A part of the program a specification leaves out.
Unused == [none |-> TRUE]

StoreInit(in) ==
    /\ files = EmptyMap
    /\ index = EmptyMap
    /\ now = 0
    /\ issued = {}
    /\ autoCommit \in in.autoCommits
    /\ call = Idle
    /\ sync = NoSync
    /\ parked = Idle
    /\ watcher = Unused
    /\ background = Unused
    /\ remote = Unused

(* The Entity Store, its collaborators failing at will.                    *)

Init == StoreInit(CrudInputs)

Next ==
    \/ CreateCall(CrudInputs)
    \/ ReadCall
    \/ UpdateCall(CrudInputs)
    \/ DeleteCall
    \/ FileStep(CrudInputs)
    \/ IndexStep(CrudInputs)
    \/ CommitStep

Spec == Init /\ [][Next]_vars

(* The Entity Store and the ids of its entities.                           *)

IdInit == StoreInit(IdInputs)

IdNext ==
    \/ CreateCall(IdInputs)
    \/ ReadCall
    \/ UpdateCall(IdInputs)
    \/ DeleteCall
    \/ FileStep(IdInputs)
    \/ IndexStep(IdInputs)

IdSpec == IdInit /\ [][IdNext]_vars

(* update, with every kind of partial.                                     *)

UpdateInit == StoreInit(UpdateInputs)

UpdateNext ==
    \/ Tick
    \/ CreateCall(UpdateInputs)
    \/ ReadCall
    \/ UpdateCall(UpdateInputs)
    \/ DeleteCall
    \/ FileStep(UpdateInputs)
    \/ IndexStep(UpdateInputs)
    \/ CommitStep

UpdateSpec == UpdateInit /\ [][UpdateNext]_vars

----------------------------------------------------------------------------
(* ContextStore.list.                                                      *)

\* The types and tag lists list is called with and entities are given.  A
\* tag list is a sequence of strings.
ListTypes == { <<>>, <<"w">>, <<"w", "/", "p">> }

ListTags == { << <<"t">> >>, << <<"t">>, <<"T">> >> }

ListFilters ==
    {EmptyMap} \cup { [type |-> t] : t \in ListTypes }
               \cup { [tags |-> g] : g \in { <<>>, << <<"T">> >>, << <<"T">>, <<"t">> >> } }
               \cup { [type |-> <<"w">>, tags |-> << <<"T">> >>] }

ListInputs ==
    [ titles   |-> { <<"A">> },
      contents |-> { <<"x">> },
      types    |-> { <<>>, <<"w">> },
      metas    |-> { [tags |-> g] : g \in ListTags },
      dirs     |-> { <<>> },
      updates  |-> { [metadata |-> [type |-> <<"w">>]],
                     [metadata |-> [type |-> <<"w", "/", "p">>]] },
      uuids    |-> << <<"p1", "r1">>, <<"p2", "r1">> >>,
      autoCommits |-> {FALSE},
      faults   |-> FALSE ]

Range(s) == { s[i] : i \in 1..Len(s) }

\* walkDirectory calls back for the files in readdir order, which is fixed
\* for an unchanged tree.
WalkDirectory(tree) ==
    CHOOSE s \in [1..Cardinality(DOMAIN tree) -> DOMAIN tree] :
        \A i, j \in 1..Cardinality(DOMAIN tree) : i # j => s[i] # s[j]

\* The filter of list: a file passes unless it is dropped by
\* `filter.type && type !== filter.type` or lacks one of filter.tags.
PassesFilter(filter, context) ==
    /\ ~(Truthy(filter, "type") /\ context.metadata.type # filter.type)
    /\ Truthy(filter, "tags") =>
          \A i \in 1..Len(filter.tags) :
              filter.tags[i] \in Range(context.metadata.tags)

\* Array.prototype.sort with (a, b) => updated(b) - updated(a): a stable
\* sort; an element goes behind the elements that are not older than it.
RECURSIVE InsertByUpdated(_, _)
InsertByUpdated(sorted, c) ==
    IF sorted = <<>> THEN <<c>>
    ELSE IF Head(sorted).metadata.updated >= c.metadata.updated
    THEN <<Head(sorted)>> \o InsertByUpdated(Tail(sorted), c)
    ELSE <<c>> \o sorted

\* A sort with the comparator's operands swapped: oldest first.
RECURSIVE SortOldestFirst(_)
SortOldestFirst(contexts) ==
    IF contexts = <<>> THEN <<>>
    ELSE LET rest == SortOldestFirst(SubSeq(contexts, 1, Len(contexts) - 1))
             c == contexts[Len(contexts)]
             n == Cardinality({ i \in 1..Len(rest) :
                                  rest[i].metadata.updated <= c.metadata.updated })
         IN  SubSeq(rest, 1, n) \o <<c>> \o SubSeq(rest, n + 1, Len(rest))

RECURSIVE SortByUpdated(_)
SortByUpdated(contexts) ==
    IF contexts = <<>> THEN <<>>
    ELSE InsertByUpdated(SortByUpdated(SubSeq(contexts, 1, Len(contexts) - 1)),
                         contexts[Len(contexts)])

\* list(filter): walk, parse, filter, sort.
List(tree, filter) ==
    LET walk == WalkDirectory(tree)
        parsed == [i \in 1..Len(walk) |-> Parse(tree[walk[i]], walk[i])]
        Kept(c) == EndsWith(c.filepath, <<".md">>) /\ PassesFilter(filter, c)
    IN  SortByUpdated(SelectSeq(parsed, Kept))

ListCall ==
    \E filter \in ListFilters :
        /\ call.pc = "idle"
        /\ call' = [ Idle EXCEPT !.op = "list", !.upd = filter, !.kind = "list",
                       !.ctx = [list |-> List(files, filter)] ]
        /\ UNCHANGED <<files, index, now, issued, autoCommit, sync,
                 parked, watcher, background, remote>>

(* The Entity Store and its listing.                                      *)

ListInit == StoreInit(ListInputs)

ListNext ==
    \/ Tick
    \/ CreateCall(ListInputs)
    \/ UpdateCall(ListInputs)
    \/ DeleteCall
    \/ FileStep(ListInputs)
    \/ IndexStep(ListInputs)
    \/ ListCall

ListSpec == ListInit /\ [][ListNext]_vars

----------------------------------------------------------------------------
(* HybridSearch: the Relevance Scorer and the fusion.                      *)
(*                                                                         *)
(* A score is a number of 600ths: 1.0 is 600.  A weight is a number of     *)
(* tenths: 0.7 is 7.                                                       *)

ScoreUnit == 600

TitleScore == 600

ContentScore == 480

TagScore == 360

WordScore == 240

DefaultLimit == 10

DefaultSemanticWeight == 7

DefaultExactMatchBoost == 3

\* A token must be longer than this to count as a word match.
MinWordLen == 2

Times(score, tenths) == (score * tenths) \div 10

HasSpace(s) == \E i \in 1..Len(s) : IsSpace(s[i])

FirstSpace(s) == CHOOSE i \in 1..Len(s) : IsSpace(s[i]) /\ \A j \in 1..(i - 1) : ~IsSpace(s[j])

\* String.prototype.split(/\s+/): the pieces between the runs of whitespace;
\* a run at either end leaves an empty piece there, and the empty string
\* splits into one empty piece.
RECURSIVE SplitWhitespace(_)
SplitWhitespace(s) ==
    IF ~HasSpace(s) THEN <<s>>
    ELSE <<SubSeq(s, 1, FirstSpace(s) - 1)>>
         \o SplitWhitespace(TrimLeft(SubSeq(s, FirstSpace(s), Len(s))))

\* Array.prototype.join(' ')
RECURSIVE Join(_)
Join(strings) ==
    IF strings = <<>> THEN <<>>
    ELSE IF Len(strings) = 1 THEN strings[1]
    ELSE strings[1] \o <<" ">> \o Join(Tail(strings))

\* The text the words of the query are looked up in.
ContextText(context) ==
    ToLowerCase(context.metadata.title \o <<" ">> \o context.content \o <<" ">>
                \o Join(context.metadata.tags))

\* The words of the query that count and are found in the text.
WordMatches(query, context) ==
    SelectSeq(SplitWhitespace(ToLowerCase(query)),
              LAMBDA word : Len(word) > MinWordLen /\ Includes(ContextText(context), word))

TitleMatch(query, context) ==
    Includes(ToLowerCase(context.metadata.title), ToLowerCase(query))

ContentMatch(query, context) ==
    Includes(ToLowerCase(context.content), ToLowerCase(query))

TagMatch(query, context) ==
    \E i \in 1..Len(context.metadata.tags) :
        Includes(ToLowerCase(context.metadata.tags[i]), ToLowerCase(query))

\* A scorer that adds the word score and forgets that it is a match.
TextScoreWordsNoMatch(query, context) ==
    [ score |-> (IF TitleMatch(query, context) THEN TitleScore ELSE 0)
                + (IF ContentMatch(query, context) THEN ContentScore ELSE 0)
                + (IF TagMatch(query, context) THEN TagScore ELSE 0)
                + (IF Len(WordMatches(query, context)) > 0
                   THEN (Len(WordMatches(query, context)) * WordScore)
                            \div Len(SplitWhitespace(ToLowerCase(query)))
                   ELSE 0),
      hasMatch |-> \/ TitleMatch(query, context)
                   \/ ContentMatch(query, context)
                   \/ TagMatch(query, context) ]

\* The body of performTextSearch's loop: score and hasMatch of one entity.
TextScore(query, context) ==
    [ score |-> (IF TitleMatch(query, context) THEN TitleScore ELSE 0)
                + (IF ContentMatch(query, context) THEN ContentScore ELSE 0)
                + (IF TagMatch(query, context) THEN TagScore ELSE 0)
                + (IF Len(WordMatches(query, context)) > 0
                   THEN (Len(WordMatches(query, context)) * WordScore)
                            \div Len(SplitWhitespace(ToLowerCase(query)))
                   ELSE 0),
      hasMatch |-> \/ TitleMatch(query, context)
                   \/ ContentMatch(query, context)
                   \/ TagMatch(query, context)
                   \/ Len(WordMatches(query, context)) > 0 ]

RECURSIVE PerformTextSearch(_, _)
PerformTextSearch(query, allContexts) ==
    IF allContexts = <<>> THEN <<>>
    ELSE (IF TextScore(query, Head(allContexts)).hasMatch
          THEN << [ context |-> Head(allContexts),
                    score |-> TextScore(query, Head(allContexts)).score,
                    matchType |-> "exact" ] >>
          ELSE <<>>)
         \o PerformTextSearch(query, Tail(allContexts))

\* combinedMap: a Map keeps its keys in the order of their first insertion.
KeyOf(entry) == entry.context.metadata.id

MapHas(map, id) == \E i \in 1..Len(map) : KeyOf(map[i]) = id

MapGet(map, id) == map[CHOOSE i \in 1..Len(map) : KeyOf(map[i]) = id]

MapSet(map, entry) ==
    IF MapHas(map, KeyOf(entry))
    THEN [i \in 1..Len(map) |-> IF KeyOf(map[i]) = KeyOf(entry) THEN entry ELSE map[i]]
    ELSE Append(map, entry)

\* combineResults, first loop: the semantic hits.
RECURSIVE AddVectorResults(_, _, _)
AddVectorResults(map, vectorResults, semanticWeight) ==
    IF vectorResults = <<>> THEN map
    ELSE AddVectorResults(
             MapSet(map, [ context |-> Head(vectorResults).context,
                           score |-> Times(Head(vectorResults).score, semanticWeight),
                           matchType |-> "semantic" ]),
             Tail(vectorResults), semanticWeight)

\* combineResults, second loop: the text hits add to an entry or make one.
RECURSIVE AddTextResults(_, _, _)
AddTextResults(map, textResults, exactMatchBoost) ==
    IF textResults = <<>> THEN map
    ELSE LET result == Head(textResults)
             id == KeyOf(result)
         IN  AddTextResults(
                 MapSet(map,
                        IF MapHas(map, id)
                        THEN [ context |-> result.context,
                               score |-> MapGet(map, id).score
                                         + Times(result.score, exactMatchBoost),
                               matchType |-> "hybrid" ]
                        ELSE [ context |-> result.context,
                               score |-> Times(result.score, exactMatchBoost),
                               matchType |-> "exact" ]),
                 Tail(textResults), exactMatchBoost)

CombineResults(vectorResults, textResults, semanticWeight, exactMatchBoost) ==
    AddTextResults(AddVectorResults(<<>>, vectorResults, semanticWeight),
                   textResults, exactMatchBoost)

\* sort((a, b) => b.score - a.score): a stable sort, highest score first.
RECURSIVE InsertByScore(_, _)
InsertByScore(sorted, r) ==
    IF sorted = <<>> THEN <<r>>
    ELSE IF Head(sorted).score >= r.score
    THEN <<Head(sorted)>> \o InsertByScore(Tail(sorted), r)
    ELSE <<r>> \o sorted

RECURSIVE SortByScore(_)
SortByScore(results) ==
    IF results = <<>> THEN <<>>
    ELSE InsertByScore(SortByScore(SubSeq(results, 1, Len(results) - 1)),
                       results[Len(results)])

\* slice(0, limit), for a limit that is not negative.
Slice(s, limit) == SubSeq(s, 1, Min(Len(s), limit))

\* A destructured option and its default.
Option(options, key, default) ==
    IF key \in DOMAIN options THEN options[key] ELSE default

\* What vectorStore.searchSimilar does: it throws, or returns hits.
VectorThrows == [throws |-> TRUE, hits |-> <<>>]

\* HybridSearch.search without its catch: an error of the semantic channel
\* rejects the call.
SearchNoCatch(query, allContexts, options, vector) ==
    IF vector.throws
    THEN [ kind |-> "rejected", results |-> <<>> ]
    ELSE [ kind |-> "fused",
           results |->
               Slice(SortByScore(CombineResults(
                         vector.hits, PerformTextSearch(query, allContexts),
                         Option(options, "semanticWeight", DefaultSemanticWeight),
                         Option(options, "exactMatchBoost", DefaultExactMatchBoost))),
                     Option(options, "limit", DefaultLimit)) ]

\* HybridSearch.search: the fused results, or the text results when the
\* semantic channel throws.
Search(query, allContexts, options, vector) ==
    IF vector.throws
    THEN [ kind |-> "text",
           results |-> Slice(PerformTextSearch(query, allContexts),
                             Option(options, "limit", DefaultLimit)) ]
    ELSE [ kind |-> "fused",
           results |->
               Slice(SortByScore(CombineResults(
                         vector.hits, PerformTextSearch(query, allContexts),
                         Option(options, "semanticWeight", DefaultSemanticWeight),
                         Option(options, "exactMatchBoost", DefaultExactMatchBoost))),
                     Option(options, "limit", DefaultLimit)) ]

----------------------------------------------------------------------------
(* ContextStore.search.                                                    *)

\* A hit of the semantic channel: an entry of the index (which may be
\* stale) and its similarity, here a half or one.
VectorHits ==
    { [ context |-> [metadata |-> [id |-> i]], score |-> s ] :
        i \in Ids, s \in { ScoreUnit \div 2, ScoreUnit } }

\* The index holds an id once; the hits asked for are 2 * limit.
VectorResults ==
    { [throws |-> FALSE, hits |-> h] :
        h \in {<<>>} \cup { <<a>> : a \in VectorHits }
                     \cup { p \in VectorHits \X VectorHits : KeyOf(p[1]) # KeyOf(p[2]) } }

SearchInputs ==
    [ titles   |-> { <<"a", "a", "b">>, <<"b", "b", "b">> },
      contents |-> { <<"a", "a", "b">>, <<"b", "b", "b">> },
      types    |-> { <<"w">> },
      metas    |-> { EmptyMap, [id |-> <<"p1", "r1">>] },
      dirs     |-> { <<>> },
      updates  |-> { },
      uuids    |-> << <<"p1", "r1">>, <<"p2", "r1">> >>,
      autoCommits |-> {FALSE},
      faults   |-> FALSE,
      queries  |-> { <<"a", "a", "b">>, <<"b", "b", "b">> },
      options  |-> { EmptyMap, [limit |-> 1],
                     [limit |-> 1, semanticWeight |-> 8, exactMatchBoost |-> 2] },
      vectors  |-> VectorResults,
      rejects  |-> BOOLEAN ]

Contexts(results) == [i \in 1..Len(results) |-> results[i].context]

\* The fallback of ContextStore.search: the entities whose title, content
\* or some tag contains the query.
NaiveFilter(query, allContexts) ==
    SelectSeq(allContexts,
              LAMBDA c : \/ TitleMatch(query, c)
                         \/ ContentMatch(query, c)
                         \/ TagMatch(query, c))

\* search(): list(), up to the call of hybridSearch.search.
SearchCall(in) ==
    \E query \in in.queries, options \in in.options :
        /\ call.pc = "idle"
        /\ call' = [ Idle EXCEPT !.op = "search", !.pc = "engine",
                       !.upd = [query |-> query, options |-> options],
                       !.ctx = [all |-> List(files, EmptyMap)] ]
        /\ UNCHANGED <<files, index, now, issued, autoCommit, sync,
                 parked, watcher, background, remote>>

\* A search without the try/catch: a rejected engine call rejects it.
SearchReturnNoFallback(c, tree, vector, engine) ==
    IF engine.kind = "rejected"
    THEN [ Idle EXCEPT !.op = "search", !.upd = c.upd, !.kind = "rejected",
             !.ctx = [ all |-> c.ctx.all, vector |-> vector, engine |-> engine,
                       list |-> <<>> ] ]
    ELSE [ Idle EXCEPT !.op = "search", !.upd = c.upd, !.kind = engine.kind,
             !.ctx = [ all |-> c.ctx.all, vector |-> vector, engine |-> engine,
                       list |-> Contexts(engine.results) ] ]

\* What search returns: the entities of the engine's results, or, in the
\* catch, the naive filter over a new list().
SearchReturn(c, tree, vector, engine) ==
    IF engine.kind = "rejected"
    THEN [ Idle EXCEPT !.op = "search", !.upd = c.upd, !.kind = "naive",
             !.ctx = [ all |-> c.ctx.all, vector |-> vector, engine |-> engine,
                       list |-> NaiveFilter(c.upd.query, List(tree, EmptyMap)) ] ]
    ELSE [ Idle EXCEPT !.op = "search", !.upd = c.upd, !.kind = engine.kind,
             !.ctx = [ all |-> c.ctx.all, vector |-> vector, engine |-> engine,
                       list |-> Contexts(engine.results) ] ]

\* The rejection of a hybridSearch.search that fails as a whole.
EngineRejects == [ kind |-> "rejected", results |-> <<>>, failed |-> TRUE ]

\* await hybridSearch.search: the semantic channel answers or throws, and
\* the engine returns its results; or the engine call as a whole rejects.
EngineStep(in) ==
    /\ call.pc = "engine"
    /\ \/ \E vector \in in.vectors \cup {VectorThrows} :
             call' = SearchReturn(call, files, vector,
                                  Search(call.upd.query, call.ctx.all,
                                         call.upd.options, vector))
       \/ /\ TRUE \in in.rejects
          /\ call' = SearchReturn(call, files, VectorThrows, EngineRejects)
    /\ UNCHANGED <<files, index, now, issued, autoCommit, sync,
                 parked, watcher, background, remote>>

(* The Entity Store and its search.                                       *)

SearchInit == StoreInit(SearchInputs)

SearchNext ==
    \/ CreateCall(SearchInputs)
    \/ FileStep(SearchInputs)
    \/ IndexStep(SearchInputs)
    \/ SearchCall(SearchInputs)
    \/ EngineStep(SearchInputs)

SearchSpec == SearchInit /\ [][SearchNext]_vars

(* The Relevance Scorer, applied to a query and an entity.                 *)

ScorerQueries ==
    { <<>>, <<"a", "b">>, <<"a", "a", "b">>, <<"A", "a", "b">>,
      <<" ", "a", "a", "b">>, <<"a", "a", "b", " ", "x">>,
      <<"a", "a", "b", " ", "b", "b", "b">>,
      <<"a", "a", "b", " ", "b", "b", "b", " ", "a", "b">> }

ScorerEntities ==
    { [ metadata |-> [ id |-> <<"p1", "r1">>, title |-> title, type |-> <<"w">>,
                       tags |-> tags, created |-> 0, updated |-> 0 ],
        content |-> content,
        filepath |-> <<"w", "/", "e", ".md">> ] :
        title \in { <<"A", "a", "b">>, <<"a">> },
        content \in { <<"x">>, <<"a", "b">>, <<"b", "b", "b", " ", "a", "a", "b">> },
        tags \in { <<>>, << <<"a", "b">> >>, << <<"x">>, <<"A", "a", "b">> >> } }

ScorerInit ==
    /\ files = EmptyMap
    /\ index = EmptyMap
    /\ now = 0
    /\ issued = {}
    /\ autoCommit = FALSE
    /\ sync = NoSync
    /\ parked = Idle
    /\ watcher = Unused
    /\ background = Unused
    /\ remote = Unused
    /\ \E query \in ScorerQueries, context \in ScorerEntities :
          call = [ Idle EXCEPT !.op = "performTextSearch", !.pc = "text",
                     !.upd = [query |-> query],
                     !.ctx = [all |-> <<context>>] ]

PerformTextSearchStep ==
    /\ call.pc = "text"
    /\ call' = [ call EXCEPT !.pc = "idle", !.kind = "text",
                   !.ctx = [ all |-> call.ctx.all,
                             results |-> PerformTextSearch(call.upd.query, call.ctx.all) ] ]
    /\ UNCHANGED <<files, index, now, issued, autoCommit, sync,
                 parked, watcher, background, remote>>

ScorerNext == PerformTextSearchStep

ScorerSpec == ScorerInit /\ [][ScorerNext]_vars

----------------------------------------------------------------------------
(* RemoteGitStore: the Replication & Sync Manager.                         *)
(*                                                                         *)
(* sync.tree is the store directory: its top-level entries and what they   *)
(* hold.  ".git" holds the URL of origin (nothing: no origin), "f" stands  *)
(* for the tracked content and holds the hunks of the local ("l") and of   *)
(* the remote ("r") history, ".llmem" is the internal dot-directory.       *)
(* sync.stack holds the positions of the invocations of initialize() in    *)
(* progress, the innermost last; sync.op and sync.pc are the caller's      *)
(* operation and its position.                                             *)

\* How many invocations of initialize() fit on the call stack before a call
\* throws RangeError (Maximum call stack size exceeded).
MaxDepth == 2

\* config.remoteUrl (ContextStore builds a RemoteGitStore only if it is set)
Url == "u1"

OtherUrl == "u2"

storeVars ==
    <<files, index, now, issued, autoCommit, call, parked, watcher, background, remote>>

Tree(git, f) ==
    [n \in {".git", ".llmem", "f"} |-> IF n = ".git" THEN git ELSE IF n = "f" THEN f ELSE {}]

Without(tree, names) == [n \in (DOMAIN tree) \ names |-> tree[n]]

With(tree, name, content) ==
    [n \in (DOMAIN tree) \cup {name} |-> IF n = name THEN content ELSE tree[n]]

\* The store directories a RemoteGitStore is constructed on: none, one that
\* is no repository, and repositories whose origin is the configured URL,
\* another URL, or missing.
SyncTrees ==
    { EmptyMap, Without(Tree({}, {"l"}), {".git"}),
      Tree({Url}, {"r"}), Tree({OtherUrl}, {"l"}), Tree({}, {"l"}) }

SyncStart(tree) ==
    [ exists |-> tree # EmptyMap, tree |-> tree, initialized |-> FALSE,
      stack |-> <<>>, op |-> "none", pc |-> "idle", result |-> "none",
      out |-> "none", rel |-> "same", conflicted |-> FALSE,
      backups |-> {}, wiped |-> {}, conflicts |-> {}, flags |-> {} ]

\* origin?.refs?.fetch || null (null: the empty set)
Origin(tree) == IF ".git" \in DOMAIN tree THEN tree[".git"] ELSE {}

SetTop(s, pc) == [s EXCEPT !.stack[Len(s.stack)] = pc]

\* shouldReplaceWithRemote, and the branch initialize() takes.
Decide(s, currentRemote) ==
    SetTop(s, IF {Url} # currentRemote THEN "backup" ELSE "super")

\* pull() without its outer try/catch.
PullRethrow(s) == [s EXCEPT !.pc = "done", !.result = "rejected"]

\* The outer catch of pull(): the error is logged.
PullCatch(s) == [s EXCEPT !.pc = "done", !.result = "returned"]

\* The catch of push().
PushCatch(s) == [s EXCEPT !.pc = "done", !.result = "returned"]

\* An invocation of initialize() settles: its caller goes on.  The caller is
\* getCurrentRemoteUrl of the invocation below it (which catches a
\* rejection and returns null), or the caller's initialize(), or the
\* ensureInitialized() of pull and push.
Settle(s, how) ==
    LET t == [s EXCEPT !.stack = SubSeq(s.stack, 1, Len(s.stack) - 1)]
    IN  IF t.stack # <<>>
        THEN IF how = "resolved" THEN SetTop(t, "remotes") ELSE Decide(t, {})
        ELSE IF t.op = "initialize"
        THEN [t EXCEPT !.pc = "done",
                       !.result = IF how = "resolved" THEN "returned" ELSE "rejected"]
        ELSE IF how = "resolved"
        THEN [t EXCEPT !.pc = IF t.op = "pull" THEN "fetch" ELSE "push"]
        ELSE IF t.op = "pull" THEN PullCatch(t) ELSE PushCatch(t)

Callable == sync.pc \in {"idle", "done"}

\* A call begins; what the model remembers of the call before (the copies
\* it made, the entries it removed, what its steps met) is forgotten.
Begin(op) ==
    [sync EXCEPT !.op = op, !.result = "none", !.out = "none", !.flags = {},
                 !.backups = {}, !.wiped = {}, !.conflicts = {}]

AtFrame(pc) == sync.stack # <<>> /\ sync.stack[Len(sync.stack)] = pc

\* The caller invokes initialize().
InitializeCall ==
    /\ Callable
    /\ sync' = [Begin("initialize") EXCEPT !.pc = "init", !.stack = <<"start">>]
    /\ UNCHANGED storeVars

\* ensureInitialized() at the start of pull and push.
EnsureInitialized(s, next) ==
    IF s.initialized THEN [s EXCEPT !.pc = next]
    ELSE [s EXCEPT !.pc = "init", !.stack = <<"start">>]

PullCall ==
    /\ Callable
    /\ sync' = EnsureInitialized(Begin("pull"), "fetch")
    /\ UNCHANGED storeVars

PushCall ==
    /\ Callable
    /\ sync' = EnsureInitialized(Begin("push"), "push")
    /\ UNCHANGED storeVars

\* initialize() up to getCurrentRemoteUrl's ensureInitialized(): while the
\* store is not initialized it invokes initialize() again, until the call
\* stack is full and the call throws, which getCurrentRemoteUrl catches.
GetCurrentRemoteUrl ==
    /\ AtFrame("start")
    /\ sync' = IF sync.initialized THEN SetTop(sync, "remotes")
               ELSE IF Len(sync.stack) < MaxDepth
               THEN [SetTop(sync, "wait") EXCEPT !.stack = Append(@, "start"),
                                                 !.out = "reenter"]
               ELSE [Decide(sync, {}) EXCEPT !.out = "overflow"]
    /\ UNCHANGED storeVars

\* git.getRemotes(true) in getCurrentRemoteUrl: the origin, or an error,
\* which makes it null.
GetRemotes ==
    /\ AtFrame("remotes")
    /\ \/ sync' = [Decide(sync, Origin(sync.tree)) EXCEPT !.out = "remotes"]
       \/ sync' = [Decide(sync, {}) EXCEPT !.out = "remotesFail"]
    /\ UNCHANGED storeVars


\* backupCurrentState copies every entry but .llmem.
BackupEntriesNoDot(tree) ==
    { <<n, tree[n]>> : n \in (DOMAIN tree) \ {".llmem", ".git"} }

BackupEntries(tree) == { <<n, tree[n]>> : n \in (DOMAIN tree) \ {".llmem"} }

\* wipeLocalContent removes every entry but .llmem.
WipeEntries(tree) == { <<n, tree[n]>> : n \in (DOMAIN tree) \ {".llmem"} }

\* replaceWithRemote, step 1: backupCurrentState, if the store path exists.
\* A failing mkdir or copy leaves the copies made so far and rejects.
BackupCurrentState ==
    /\ AtFrame("backup")
    /\ \/ /\ ~sync.exists
          /\ sync' = [SetTop(sync, "wipe") EXCEPT !.out = "noBackup"]
       \/ /\ sync.exists
          /\ sync' = [SetTop(sync, "wipe") EXCEPT
                         !.backups = @ \cup BackupEntries(sync.tree),
                         !.tree = With(@, ".llmem", {}),
                         !.out = "backup"]
       \/ /\ sync.exists
          /\ \E copied \in (SUBSET BackupEntries(sync.tree)) \ {BackupEntries(sync.tree)} :
                sync' = [Settle(sync, "rejected") EXCEPT
                            !.backups = @ \cup copied, !.out = "backupFail"]
       \/ /\ sync.exists
          /\ sync' = [Settle(sync, "rejected") EXCEPT !.out = "backupFail"]
    /\ UNCHANGED storeVars

\* replaceWithRemote, step 2: wipeLocalContent, one rm per step.  readdir of
\* a store path that does not exist throws.
WipeLocalContent ==
    /\ AtFrame("wipe")
    /\ \/ /\ sync.exists /\ WipeEntries(sync.tree) = {}
          /\ sync' = [SetTop(sync, "clone") EXCEPT !.out = "wiped"]
       \/ /\ sync.exists
          /\ \E e \in WipeEntries(sync.tree) :
                sync' = [sync EXCEPT !.tree = Without(@, {e[1]}),
                                     !.wiped = @ \cup {e}, !.out = "rm"]
       \/ /\ ~sync.exists \/ WipeEntries(sync.tree) # {}
          /\ sync' = [Settle(sync, "rejected") EXCEPT !.out = "wipeFail"]
    /\ UNCHANGED storeVars

\* cloneFromRemote's catch: throw new Error('Failed to clone from remote').
CloneFailed(s) == Settle(s, "rejected")

\* replaceWithRemote, step 3: cloneFromRemote.
CloneFromRemote ==
    /\ AtFrame("clone")
    /\ \/ sync' = [SetTop(sync, "skeleton") EXCEPT
                      !.tree = With(With(@, ".git", {Url}), "f", {"r"}),
                      !.rel = "same", !.conflicted = FALSE, !.out = "clone"]
       \/ sync' = [CloneFailed(sync) EXCEPT !.out = "cloneFail",
                                            !.flags = @ \cup {"cloneFail"}]
    /\ UNCHANGED storeVars

\* replaceWithRemote, step 4: ensureDirectoryStructure.
EnsureDirectoryStructure ==
    /\ AtFrame("skeleton")
    /\ \/ sync' = [SetTop(sync, "configure") EXCEPT !.out = "skeleton"]
       \/ sync' = [Settle(sync, "rejected") EXCEPT !.out = "skeletonFail"]
    /\ UNCHANGED storeVars

\* super.initialize(): GitStore.initialize.  It is reached with origin equal
\* to the configured URL, that is, in a repository.
SuperInitialize ==
    /\ AtFrame("super")
    /\ \/ /\ sync.initialized
          /\ sync' = [SetTop(sync, "configure") EXCEPT !.out = "super"]
       \/ /\ ~sync.initialized
          /\ sync' = [SetTop(sync, "configure") EXCEPT
                         !.exists = TRUE, !.initialized = TRUE, !.out = "super"]
       \/ /\ ~sync.initialized
          /\ sync' = [Settle(sync, "rejected") EXCEPT !.out = "superFail"]
    /\ UNCHANGED storeVars

\* configureRemote: add origin if there is none; errors are logged.
ConfigureRemote ==
    /\ AtFrame("configure")
    /\ \/ sync' = [Settle(sync, "resolved") EXCEPT
                      !.tree = IF ".git" \in DOMAIN sync.tree /\ Origin(sync.tree) = {}
                               THEN With(@, ".git", {Url}) ELSE @,
                      !.out = "configure"]
       \/ sync' = [Settle(sync, "resolved") EXCEPT !.out = "configureFail"]
    /\ UNCHANGED storeVars

\* A git command can succeed only in a repository.
GitOk == ".git" \in DOMAIN sync.tree

\* git merges only into a working tree that has no unfinished merge and
\* whose f is there (it refuses to overwrite an uncommitted removal).
MergeOk == GitOk /\ ~sync.conflicted /\ "f" \in DOMAIN sync.tree

F(tree) == IF "f" \in DOMAIN tree THEN tree["f"] ELSE {}

AtPull(pc) == sync.op = "pull" /\ sync.pc = pc /\ sync.stack = <<>>

\* git.fetch('origin', 'main')
Fetch ==
    /\ AtPull("fetch")
    /\ \/ GitOk /\ sync' = [sync EXCEPT !.pc = "status", !.out = "fetch"]
       \/ sync' = [PullCatch(sync) EXCEPT !.out = "fetchFail", !.flags = @ \cup {"fail"}]
    /\ UNCHANGED storeVars

\* git.status() and status.behind > 0
Status ==
    /\ AtPull("status")
    /\ \/ /\ GitOk
          /\ sync' = IF sync.rel \in {"behind", "diverged"}
                     THEN [sync EXCEPT !.pc = "merge", !.out = "behind"]
                     ELSE [sync EXCEPT !.pc = "done", !.result = "returned",
                                       !.out = "upToDate"]
       \/ sync' = [PullCatch(sync) EXCEPT !.out = "statusFail", !.flags = @ \cup {"fail"}]
    /\ UNCHANGED storeVars

\* git.pull('origin', 'main'): a fast-forward, a clean merge, a merge that
\* stops with f in conflict (f has a local hunk, and then holds the hunks of
\* both sides between conflict markers), or git refusing (as it does while an earlier
\* merge is unfinished); the last two throw, and the catch runs
\* resolveConflictsAutomatically.
Merge ==
    /\ AtPull("merge")
    /\ \/ /\ MergeOk /\ sync.rel = "behind"
          /\ sync' = [sync EXCEPT !.pc = "done", !.result = "returned",
                                  !.tree = With(@, "f", {"r"}), !.rel = "same",
                                  !.out = "fastForward"]
       \/ /\ MergeOk /\ sync.rel = "diverged"
          /\ sync' = [sync EXCEPT !.pc = "done", !.result = "returned",
                                  !.tree = With(@, "f", F(@) \cup {"r"}), !.rel = "ahead",
                                  !.flags = @ \cup {"diverged"}, !.out = "merged"]
       \/ /\ MergeOk /\ sync.rel = "diverged" /\ "l" \in F(sync.tree)
          /\ sync' = [sync EXCEPT !.pc = "resolve",
                                  !.tree = With(@, "f", F(@) \cup {"r"}),
                                  !.conflicted = TRUE,
                                  !.flags = @ \cup {"diverged", "conflict"},
                                  !.out = "conflict"]
       \/ sync' = [sync EXCEPT !.pc = "resolve",
                               !.flags = @ \cup {"fail"} \cup
                                         IF sync.rel = "diverged" THEN {"diverged"} ELSE {},
                               !.out = "mergeFail"]
    /\ UNCHANGED storeVars

\* resolveConflictsAutomatically: git.status() and status.conflicted.
ResolveStatus ==
    /\ AtPull("resolve")
    /\ \/ /\ GitOk
          /\ sync' = IF sync.conflicted
                     THEN [sync EXCEPT !.pc = "file", !.out = "conflicted"]
                     ELSE [sync EXCEPT !.pc = "done", !.result = "returned",
                                       !.out = "noConflict"]
       \/ sync' = [sync EXCEPT !.pc = "reset", !.flags = @ \cup {"fail"},
                               !.out = "statusFail"]
    /\ UNCHANGED storeVars

\* A resolution that checks the remote version out before it copies the file.
CheckedOutFirst(s, copy, checkout) ==
    [s EXCEPT !.tree = IF checkout = "ok" THEN With(@, "f", {"r"}) ELSE @,
              !.conflicts = IF copy = "ok"
                            THEN @ \cup {IF checkout = "ok" THEN {"r"} ELSE F(s.tree)}
                            ELSE @]

\* resolveFileConflict: backupConflictedFile copies the working-tree file,
\* then git checkout --theirs.
Resolved(s, copy, checkout) ==
    [s EXCEPT !.conflicts = IF copy = "ok" THEN @ \cup {F(s.tree)} ELSE @,
              !.tree = IF checkout = "ok" THEN With(@, "f", {"r"}) ELSE @]

\* resolveFileConflict for the conflicted file.  A failing mkdir skips the
\* copy and the checkout, a failing copy is logged and the checkout follows,
\* a failing checkout is logged.
ResolveFileConflict ==
    /\ AtPull("file")
    /\ \/ sync' = [sync EXCEPT !.pc = "commit", !.flags = @ \cup {"fail"},
                               !.out = "mkdirFail"]
       \/ \E copy \in {"ok", "fail"}, checkout \in {"ok", "fail"} :
             /\ checkout = "ok" => GitOk
             /\ sync' = [Resolved(sync, copy, checkout) EXCEPT
                            !.pc = "commit",
                            !.flags = IF copy = "ok" /\ checkout = "ok"
                                      THEN @ ELSE @ \cup {"fail"},
                            !.out = IF copy = "ok" /\ checkout = "ok" THEN "theirs"
                                    ELSE "fileFail"]
    /\ UNCHANGED storeVars

\* git.add('.') and git.commit('Auto-resolve conflicts: ...')
StageAndCommit ==
    /\ AtPull("commit")
    /\ \/ /\ GitOk
          /\ sync' = [sync EXCEPT !.pc = "done", !.result = "returned",
                                  !.conflicted = FALSE, !.rel = "ahead",
                                  !.out = "committed"]
       \/ sync' = [sync EXCEPT !.pc = "reset", !.flags = @ \cup {"fail"},
                               !.out = "commitFail"]
    /\ UNCHANGED storeVars

\* The catch of resolveConflictsAutomatically: git.reset --hard origin/main.
\* Its error leaves resolveConflictsAutomatically and reaches pull's catch.
HardReset ==
    /\ AtPull("reset")
    /\ \/ /\ GitOk
          /\ sync' = [sync EXCEPT !.pc = "done", !.result = "returned",
                                  !.tree = With(@, "f", {"r"}), !.rel = "same",
                                  !.conflicted = FALSE, !.out = "reset"]
       \/ sync' = [PullCatch(sync) EXCEPT !.out = "resetFail"]
    /\ UNCHANGED storeVars

\* git.push('origin', 'main') in push()
Push ==
    /\ sync.op = "push" /\ sync.pc = "push" /\ sync.stack = <<>>
    /\ \/ /\ GitOk /\ sync.rel \in {"same", "ahead"}
          /\ sync' = [sync EXCEPT !.pc = "done", !.result = "returned",
                                  !.rel = "same", !.out = "pushed",
                                  !.tree = IF sync.rel = "ahead"
                                           THEN With(@, "f", {"r"}) ELSE @]
       \/ sync' = [PushCatch(sync) EXCEPT !.out = "pushFail"]
    /\ UNCHANGED storeVars

\* A commit on the local branch between two calls: f gets a local hunk.
LocalCommit ==
    /\ Callable /\ GitOk /\ sync.rel \in {"same", "behind"}
    /\ "f" \in DOMAIN sync.tree
    /\ sync' = [sync EXCEPT !.tree = With(@, "f", F(@) \cup {"l"}),
                            !.rel = IF @ = "same" THEN "ahead" ELSE "diverged"]
    /\ UNCHANGED storeVars

\* A commit on origin/main by another replica: "r" names its hunk from now.
RemoteCommit ==
    /\ Callable /\ GitOk /\ sync.rel \in {"same", "ahead"}
    /\ Origin(sync.tree) = {Url}
    /\ sync' = [sync EXCEPT !.tree = IF "f" \in DOMAIN @
                                     THEN With(@, "f", F(@) \ {"r"}) ELSE @,
                            !.rel = IF @ = "same" THEN "behind" ELSE "diverged"]
    /\ UNCHANGED storeVars

SyncInit ==
    /\ files = EmptyMap
    /\ index = EmptyMap
    /\ now = 0
    /\ issued = {}
    /\ autoCommit = TRUE
    /\ call = Idle
    /\ sync \in { SyncStart(tree) : tree \in SyncTrees }
    /\ parked = Idle
    /\ watcher = Unused
    /\ background = Unused
    /\ remote = Unused

SyncNext ==
    \/ InitializeCall
    \/ PullCall
    \/ PushCall
    \/ GetCurrentRemoteUrl
    \/ GetRemotes
    \/ BackupCurrentState
    \/ WipeLocalContent
    \/ CloneFromRemote
    \/ EnsureDirectoryStructure
    \/ SuperInitialize
    \/ ConfigureRemote
    \/ Fetch
    \/ Status
    \/ Merge
    \/ ResolveStatus
    \/ ResolveFileConflict
    \/ StageAndCommit
    \/ HardReset
    \/ Push
    \/ LocalCommit
    \/ RemoteCommit

SyncSpec == SyncInit /\ [][SyncNext]_vars

----------------------------------------------------------------------------
(* FileWatcher: the Index Reconciler.                                      *)
(*                                                                         *)
(* watcher.watcher is this.watcher (null or the FSWatcher), watcher.open   *)
(* counts the FSWatchers that watch() has created and close() has not      *)
(* closed, watcher.last is the last call of start() or stop() and          *)
(* watcher.warned says whether it logged 'File watcher is already          *)
(* running'.  watcher.events holds the events chokidar has emitted and     *)
(* whose handler has not run yet, watcher.handled the event handled last.  *)

\* How many events wait for their handler at a time.
MaxPending == 1

\* No handler of the watcher is in progress.  Of a handler, kind is the
\* event, pc its position, path the file, ctx what it has parsed; out is
\* what the handler before did.
NoHandler ==
    [ kind |-> "none", pc |-> "idle", path |-> <<>>, ctx |-> NoCtx, out |-> "none" ]

WatcherInit ==
    [ watcher |-> "null", open |-> 0, last |-> "none", warned |-> FALSE,
      events |-> {}, handled |-> <<>>, handler |-> NoHandler ]

IsRunning(w) == w.watcher # "null"

\* start() without its guard: it calls watch() whatever this.watcher holds.
StartUnguarded(w) ==
    [w EXCEPT !.watcher = "FSWatcher", !.open = @ + 1, !.last = "start",
              !.warned = FALSE]

\* start(): warn and return if a watcher is held, else watch().
Start(w) ==
    IF w.watcher # "null"
    THEN [w EXCEPT !.last = "start", !.warned = TRUE]
    ELSE [w EXCEPT !.watcher = "FSWatcher", !.open = @ + 1, !.last = "start",
                   !.warned = FALSE]

\* stop(): close the watcher held, if any, and forget it.
Stop(w) ==
    IF w.watcher # "null"
    THEN [w EXCEPT !.watcher = "null", !.open = @ - 1, !.last = "stop",
                   !.warned = FALSE]
    ELSE [w EXCEPT !.last = "stop", !.warned = FALSE]

\* ContextStore.startFileWatcher
StartFileWatcher ==
    /\ watcher # Unused
    /\ watcher' = Start(watcher)
    /\ UNCHANGED <<files, index, now, issued, autoCommit, call, sync,
                   parked, background, remote>>

\* ContextStore.stopFileWatcher
StopFileWatcher ==
    /\ watcher # Unused
    /\ watcher' = Stop(watcher)
    /\ UNCHANGED <<files, index, now, issued, autoCommit, call, sync,
                   parked, background, remote>>

\* The paths other programs write below contexts/: a markdown file named
\* with an id suffix, one named without, and a file that is no markdown.
WatchedPaths ==
    { <<"w", "/", "a", "-", "p1", ".md">>, <<"w", "/", "a", ".md">>,
      <<"w", "/", "a", "-", "p1", ".txt">> }

WatchedEntity(content) ==
    [ metadata |-> [ id |-> <<"p1", "r1">>, title |-> <<"A">>, type |-> <<"w">>,
                     tags |-> <<>>, created |-> 0, updated |-> 0 ],
      content |-> content ]

\* What they write: an entity, in two versions.
WatchedFiles == { Stringify(WatchedEntity(content)) : content \in { <<"x">>, <<"y">> } }

\* chokidar emits an event to the handlers of every open watcher.
Emit(w, kind, filepath) ==
    IF w.open > 0 THEN [w EXCEPT !.events = @ \cup { <<kind, filepath>> }] ELSE w

\* Another program writes a file below contexts/.
ExternalWrite ==
    \E filepath \in WatchedPaths, file \in WatchedFiles :
        /\ watcher # Unused
        /\ Cardinality(watcher.events) < MaxPending
        /\ files' = [p \in (DOMAIN files) \cup {filepath} |->
                        IF p = filepath THEN file ELSE files[p]]
        /\ watcher' = Emit(watcher,
                           IF filepath \in DOMAIN files THEN "change" ELSE "add",
                           filepath)
        /\ UNCHANGED <<index, now, issued, autoCommit, call, sync,
                       parked, background, remote>>

\* Another program removes a file below contexts/.
ExternalUnlink ==
    \E filepath \in DOMAIN files :
        /\ watcher # Unused
        /\ Cardinality(watcher.events) < MaxPending
        /\ files' = Unlink(files, filepath)
        /\ watcher' = Emit(watcher, "unlink", filepath)
        /\ UNCHANGED <<index, now, issued, autoCommit, call, sync,
                       parked, background, remote>>

\* parseContextFile: the parsed file, or null if it cannot be read.
ParseContextFile(tree, filepath) ==
    IF filepath \in DOMAIN tree THEN Parse(tree[filepath], filepath) ELSE NoCtx

Handled(w, event) == [w EXCEPT !.events = @ \ {event}, !.handled = event]

\* handleFileAdd: hybridSearch.addContext for a markdown file that parses;
\* an error of the index is logged.
HandleFileAdd ==
    \E event \in watcher.events, outcome \in IndexOutcomes :
        LET context == ParseContextFile(files, event[2])
        IN  /\ event[1] = "add"
            /\ index' = IF /\ EndsWith(event[2], <<".md">>)
                           /\ context # NoCtx
                           /\ outcome = "ok"
                        THEN IndexAdd(index, context)
                        ELSE index
            /\ watcher' = Handled(watcher, event)
            /\ UNCHANGED <<files, now, issued, autoCommit, call, sync,
                           parked, background, remote>>

\* handleFileChange: hybridSearch.updateContext for a markdown file that
\* parses; an error of the index is logged.
HandleFileChange ==
    \E event \in watcher.events, outcome \in IndexUpdateOutcomes :
        LET context == ParseContextFile(files, event[2])
        IN  /\ event[1] = "change"
            /\ index' = IF EndsWith(event[2], <<".md">>) /\ context # NoCtx
                        THEN IndexUpdate(index, context, outcome)
                        ELSE index
            /\ watcher' = Handled(watcher, event)
            /\ UNCHANGED <<files, now, issued, autoCommit, call, sync,
                           parked, background, remote>>

\* An 8-character block of an id (the model's [a-f0-9]{8}).
IsIdBlock(c) == c \in {"p1", "p2", "r1", "r2"}

\* filename.match(/-([a-f0-9]{8})\.md$/): the 8 characters, or nothing.
IdSuffix(filepath) ==
    IF /\ Len(filepath) >= 3
       /\ filepath[Len(filepath)] = ".md"
       /\ IsIdBlock(filepath[Len(filepath) - 1])
       /\ filepath[Len(filepath) - 2] = "-"
    THEN <<filepath[Len(filepath) - 1]>>
    ELSE <<>>

\* A handler that removes the entries whose id starts with the suffix.
IndexAfterUnlinkByPrefix(idx, filepath) ==
    [i \in { j \in DOMAIN idx : IdSuffix(filepath) = <<>>
                                 \/ IdPrefix(j) # IdSuffix(filepath) } |-> idx[i]]

\* handleFileDelete: each of its branches logs, none calls the index.
IndexAfterUnlink(idx, filepath) == idx

HandleFileDelete ==
    \E event \in watcher.events :
        /\ event[1] = "unlink"
        /\ index' = IndexAfterUnlink(index, event[2])
        /\ watcher' = Handled(watcher, event)
        /\ UNCHANGED <<files, now, issued, autoCommit, call, sync,
                       parked, background, remote>>

RECURSIVE AddAll(_, _)
AddAll(idx, contexts) ==
    IF contexts = <<>> THEN idx
    ELSE AddAll(IndexAdd(idx, Head(contexts)), Tail(contexts))

\* VectorStore.rebuildIndex: a new collection, and addContext for each.
RebuildIndex(contexts) == AddAll(EmptyMap, contexts)

\* ContextStore.rebuildVectorIndex
RebuildVectorIndex ==
    /\ watcher # Unused
    /\ index' = RebuildIndex(List(files, EmptyMap))
    /\ UNCHANGED <<files, now, issued, autoCommit, call, sync,
                   parked, watcher, background, remote>>

(* The Reconciler, and other programs that write below contexts/.          *)

WatchInit ==
    /\ files = EmptyMap
    /\ index = EmptyMap
    /\ now = 0
    /\ issued = {}
    /\ autoCommit = FALSE
    /\ call = Idle
    /\ sync = NoSync
    /\ parked = Idle
    /\ watcher = WatcherInit
    /\ background = Unused
    /\ remote = Unused

WatchNext ==
    \/ StartFileWatcher
    \/ StopFileWatcher
    \/ ExternalWrite
    \/ ExternalUnlink
    \/ HandleFileAdd
    \/ HandleFileChange
    \/ HandleFileDelete
    \/ RebuildVectorIndex

WatchSpec == WatchInit /\ [][WatchNext]_vars

----------------------------------------------------------------------------
(* ContextStore under two callers.  The calls take turns at their awaits:  *)
(* call is the one that runs, parked the one that waits.  writeFile is     *)
(* open(path, 'w'), which creates or truncates the file, followed by a     *)
(* write at offset 0 and close; FileStep is the three without a step of    *)
(* the other call in between.                                              *)

\* Two callers: entities of one title and type, ids that share their first
\* 8 characters, and updates of the content and of the title.
ConcInputs ==
    [ titles   |-> { <<"A">> },
      contents |-> { <<"x">> },
      types    |-> { <<"w">> },
      metas    |-> { EmptyMap },
      dirs     |-> { <<>> },
      updates  |-> { [content |-> <<"y", "z", "y">>],
                     [metadata |-> [title |-> <<"T">>]] },
      uuids    |-> << <<"p1", "r1">>, <<"p1", "r2">> >>,
      autoCommits |-> {FALSE},
      faults   |-> FALSE ]

\* The file open(path, 'w') leaves: no byte.
EmptyFile == [data |-> EmptyMap, body |-> <<>>]

\* The length of a front matter, up to what all entities share (the keys,
\* the id, the timestamps).
MatterLen(data) ==
    IF DOMAIN data = {} THEN 0
    ELSE 1 + Len(data.title) + Len(data.type) + Len(data.tags)

FileLen(file) == MatterLen(file.data) + Len(file.body)

\* write(fd, data) at offset 0 of a file that holds old: the bytes of old
\* behind the end of data stay.
Overwrite(old, new) ==
    LET k == FileLen(old) - FileLen(new)
    IN  IF k <= 0 THEN new
        ELSE IF k <= Len(old.body)
        THEN [new EXCEPT !.body = @ \o SubSeq(old.body, Len(old.body) - k + 1,
                                              Len(old.body))]
        ELSE [new EXCEPT !.body = @ \o <<"---">> \o old.body]

\* writeFile of writeContext, first part: open(filepath, 'w').
OpenStep ==
    /\ call.pc = "file" /\ call.op # "delete"
    /\ files' = [p \in (DOMAIN files) \cup {call.path} |->
                    IF p = call.path THEN EmptyFile ELSE files[p]]
    /\ call' = [call EXCEPT !.pc = "write"]
    /\ UNCHANGED <<index, now, issued, autoCommit, sync,
                   parked, watcher, background, remote>>

\* writeFile of writeContext, second part: the write through the open file
\* (a file unlinked since has no name any more).
WriteStep ==
    /\ call.pc = "write"
    /\ files' = IF call.path \in DOMAIN files
                THEN [files EXCEPT ![call.path] = Overwrite(@, Stringify(call.ctx))]
                ELSE files
    /\ call' = [call EXCEPT !.pc = "index", !.fs = "ok"]
    /\ UNCHANGED <<index, now, issued, autoCommit, sync,
                   parked, watcher, background, remote>>

\* The event loop goes on with the other call.
Switch ==
    /\ call.pc # "idle" \/ parked.pc # "idle"
    /\ call' = parked
    /\ parked' = call
    /\ UNCHANGED <<files, index, now, issued, autoCommit, sync,
                   watcher, background, remote>>

(* The Entity Store and two callers.                                       *)

ConcInit == StoreInit(ConcInputs)

ConcNext ==
    \/ Switch
    \/ CreateCall(ConcInputs)
    \/ UpdateCall(ConcInputs)
    \/ DeleteCall
    \/ FileStep(ConcInputs)
    \/ OpenStep
    \/ WriteStep
    \/ IndexStep(ConcInputs)

ConcSpec == ConcInit /\ [][ConcNext]_vars

----------------------------------------------------------------------------
(* ContextStore: the background activities and their shutdown.             *)
(*                                                                         *)
(* background.interval is this.backgroundSyncInterval (undefined or the    *)
(* Timeout), background.timers counts the intervals that setInterval has   *)
(* set and clearInterval has not cleared, background.callback says whether *)
(* a timer callback awaits pull(), background.tick is what the last        *)
(* callback did with the outcome of pull(), background.unhandled whether   *)
(* an error has left a callback.  background.op is the last call of        *)
(* initialize, stopBackgroundSync or cleanup and background.released what  *)
(* it stopped.                                                             *)

BackgroundInit(remoteUrl, autoSync, autoIndex) ==
    [ remoteUrl |-> remoteUrl, autoSync |-> autoSync, autoIndex |-> autoIndex,
      interval |-> "undefined", timers |-> 0, callback |-> "idle",
      tick |-> "none", unhandled |-> FALSE, op |-> "none", released |-> {} ]

\* startBackgroundSync that sets a new interval without clearing the old.
StartBackgroundSyncNoClear(b) ==
    [b EXCEPT !.timers = @ + 1, !.interval = "Timeout"]

\* startBackgroundSync: clearInterval of the interval held, if any, then
\* setInterval.
StartBackgroundSync(b) ==
    [b EXCEPT !.timers = (IF b.interval # "undefined" THEN @ - 1 ELSE @) + 1,
              !.interval = "Timeout"]

\* stopBackgroundSync: clearInterval of the interval held, if any.
StopBackgroundSync(b) ==
    IF b.interval # "undefined"
    THEN [b EXCEPT !.timers = @ - 1, !.interval = "undefined"]
    ELSE b

\* What a call that stops the timer and the watcher stops.
Released(b, w) ==
    (IF b.interval # "undefined" THEN {"timer"} ELSE {})
        \cup (IF IsRunning(w) THEN {"watcher"} ELSE {})

\* ContextStore.initialize, after gitStore.initialize and the first pull:
\* if the vector store comes up, start the watcher (autoIndex) and the
\* background sync (remoteUrl and autoSync); if not, the catch logs.
StoreInitialize ==
    \E vector \in {"ok", "fail"} :
        /\ background # Unused
        /\ watcher' = IF vector = "ok" /\ background.autoIndex
                      THEN Start(watcher) ELSE watcher
        /\ background' =
              [ (IF vector = "ok" /\ background.remoteUrl /\ background.autoSync
                 THEN StartBackgroundSync(background) ELSE background)
                EXCEPT !.op = "initialize", !.released = {} ]
        /\ UNCHANGED <<files, index, now, issued, autoCommit, call, sync,
                       parked, remote>>

\* ContextStore.stopBackgroundSync
StopBackgroundSyncCall ==
    /\ background # Unused
    /\ background' = [ StopBackgroundSync(background) EXCEPT
                         !.op = "stopBackgroundSync",
                         !.released = Released(background, WatcherInit) ]
    /\ UNCHANGED <<files, index, now, issued, autoCommit, call, sync,
                   parked, watcher, remote>>

\* ContextStore.cleanup: stopBackgroundSync, then stopFileWatcher.
Cleanup ==
    /\ background # Unused
    /\ background' = [ StopBackgroundSync(background) EXCEPT
                         !.op = "cleanup",
                         !.released = Released(background, watcher) ]
    /\ watcher' = Stop(watcher)
    /\ UNCHANGED <<files, index, now, issued, autoCommit, call, sync,
                   parked, remote>>

\* The interval fires: the callback calls gitStore.pull() if the store is a
\* RemoteGitStore, which it is if config.remoteUrl is set.
TimerTick ==
    /\ background # Unused
    /\ background.timers > 0
    /\ background.callback = "idle"
    /\ background' = IF background.remoteUrl
                     THEN [background EXCEPT !.callback = "pulling"]
                     ELSE [background EXCEPT !.tick = "skipped"]
    /\ UNCHANGED <<files, index, now, issued, autoCommit, call, sync,
                   parked, watcher, remote>>

\* A callback without try / catch: the rejection of pull() leaves it.
SettledUncaught(b, outcome) ==
    [b EXCEPT !.callback = "idle",
              !.tick = outcome,
              !.unhandled = @ \/ outcome = "rejected"]

\* try { await pull() } catch (error) { console.warn(...) }
Settled(b, outcome) ==
    [b EXCEPT !.callback = "idle",
              !.tick = IF outcome = "rejected" THEN "logged" ELSE "returned"]

\* pull() settles.  It logs its own errors and returns; the callback's
\* catch is there for whatever it throws none the less.
PullSettles ==
    \E outcome \in {"returned", "rejected"} :
        /\ background # Unused
        /\ background.callback = "pulling"
        /\ background' = Settled(background, outcome)
        /\ UNCHANGED <<files, index, now, issued, autoCommit, call, sync,
                       parked, watcher, remote>>

(* The store's background activities, for every configuration.             *)

LifecycleInit ==
    /\ files = EmptyMap
    /\ index = EmptyMap
    /\ now = 0
    /\ issued = {}
    /\ autoCommit = FALSE
    /\ call = Idle
    /\ sync = NoSync
    /\ parked = Idle
    /\ watcher = WatcherInit
    /\ \E remoteUrl \in BOOLEAN, autoSync \in BOOLEAN, autoIndex \in BOOLEAN :
          background = BackgroundInit(remoteUrl, autoSync, autoIndex)
    /\ remote = Unused

LifecycleNext ==
    \/ StoreInitialize
    \/ StartFileWatcher
    \/ StopFileWatcher
    \/ StopBackgroundSyncCall
    \/ Cleanup
    \/ TimerTick
    \/ PullSettles

LifecycleSpec == LifecycleInit /\ [][LifecycleNext]_vars

----------------------------------------------------------------------------
(* RemoteGitStore: commit() and sync().                                    *)
(*                                                                         *)
(* remote.url is config.remoteUrl (nothing, or the URL) and                *)
(* remote.autoSync is config.autoSync; remote.op and remote.pc are the     *)
(* call of commit() or sync() and its position, remote.local the outcome   *)
(* of the local commit, remote.pulled and remote.pushed whether the call   *)
(* has seen its pull() return and has called push().  pull() and push()    *)
(* run as the steps of SyncSpec.                                           *)

RemoteStart(url, autoSync) ==
    [ url |-> url, autoSync |-> autoSync, op |-> "none", pc |-> "idle",
      result |-> "none", local |-> "none", pulled |-> FALSE, pushed |-> FALSE ]

RemoteCallable == remote.pc \in {"idle", "done"} /\ Callable

BeginRemote(op) ==
    [remote EXCEPT !.op = op, !.result = "none", !.local = "none",
                   !.pulled = FALSE, !.pushed = FALSE]

\* The caller invokes commit(message).
CommitCall ==
    /\ RemoteCallable
    /\ remote' = [BeginRemote("commit") EXCEPT !.pc = "local"]
    /\ sync' = Begin("commit")
    /\ UNCHANGED <<files, index, now, issued, autoCommit, call,
                   parked, watcher, background>>

\* git.commit has made a commit on the local branch.
Committed(s) ==
    [s EXCEPT !.tree = With(@, "f", F(@) \cup {"l"}),
              !.rel = CASE @ = "same" -> "ahead"
                        [] @ = "behind" -> "diverged"
                        [] OTHER -> @]

\* await super.commit(message): GitStore.commit.
SuperCommit ==
    \E outcome \in {"ok", "nothing", "fail"} :
        /\ remote.op = "commit" /\ remote.pc = "local"
        /\ outcome # "fail" => GitOk /\ "f" \in DOMAIN sync.tree
        /\ sync' = IF outcome = "ok" THEN Committed(sync) ELSE sync
        /\ remote' = IF GitCommit(outcome) = "throws"
                     THEN [remote EXCEPT !.pc = "done", !.result = "rejected",
                                         !.local = outcome]
                     ELSE [remote EXCEPT !.pc = "decide", !.local = outcome]
        /\ UNCHANGED <<files, index, now, issued, autoCommit, call,
                       parked, watcher, background>>

\* A commit() that pushes whenever a remote is configured.
ShouldPushWithoutAutoSync(r) == r.url # {}

\* this.config.remoteUrl && this.config.autoSync
ShouldPush(r) == r.url # {} /\ r.autoSync

\* commit(), after super.commit: push() or return.
AutoPush ==
    /\ remote.op = "commit" /\ remote.pc = "decide"
    /\ IF ShouldPush(remote)
       THEN /\ remote' = [remote EXCEPT !.pc = "push", !.pushed = TRUE]
            /\ sync' = EnsureInitialized(Begin("push"), "push")
       ELSE /\ remote' = [remote EXCEPT !.pc = "done", !.result = "returned"]
            /\ sync' = sync
    /\ UNCHANGED <<files, index, now, issued, autoCommit, call,
                   parked, watcher, background>>

\* await this.push() settles, in commit() and in sync().
PushReturns ==
    /\ remote.pc = "push"
    /\ sync.op = "push" /\ sync.pc = "done"
    /\ remote' = [remote EXCEPT !.pc = "done",
                                !.result = IF sync.result = "rejected"
                                           THEN "rejected" ELSE "returned"]
    /\ UNCHANGED <<files, index, now, issued, autoCommit, call, sync,
                   parked, watcher, background>>

\* The caller invokes sync(): without a remote URL it warns and returns,
\* else it calls pull().
SyncCall ==
    /\ RemoteCallable
    /\ IF remote.url = {}
       THEN /\ remote' = [BeginRemote("sync") EXCEPT !.pc = "done",
                                                     !.result = "returned"]
            /\ sync' = sync
       ELSE /\ remote' = [BeginRemote("sync") EXCEPT !.pc = "pull"]
            /\ sync' = EnsureInitialized(Begin("pull"), "fetch")
    /\ UNCHANGED <<files, index, now, issued, autoCommit, call,
                   parked, watcher, background>>

\* A sync() that pushes unless the branches are equal.
StatusAheadOrBehind(s) == s.rel # "same"

\* status.ahead > 0: the local branch has commits origin/main has not.
StatusAhead(s) == s.rel \in {"ahead", "diverged"}

\* sync(), after await this.pull(): git.status(), and push() if ahead.  An
\* error of git.status() leaves sync().
SyncStatus ==
    /\ remote.op = "sync" /\ remote.pc = "pull"
    /\ sync.op = "pull" /\ sync.pc = "done"
    /\ \/ /\ GitOk
          /\ IF StatusAhead(sync)
             THEN /\ remote' = [remote EXCEPT !.pulled = TRUE, !.pc = "push",
                                              !.pushed = TRUE]
                  /\ sync' = EnsureInitialized(Begin("push"), "push")
             ELSE /\ remote' = [remote EXCEPT !.pulled = TRUE, !.pc = "done",
                                              !.result = "returned"]
                  /\ sync' = sync
       \/ /\ remote' = [remote EXCEPT !.pulled = TRUE, !.pc = "done",
                                      !.result = "rejected"]
          /\ sync' = sync
    /\ UNCHANGED <<files, index, now, issued, autoCommit, call,
                   parked, watcher, background>>

(* commit() and sync() on an initialized store, with and without a remote. *)

RemoteInit ==
    /\ files = EmptyMap
    /\ index = EmptyMap
    /\ now = 0
    /\ issued = {}
    /\ autoCommit = TRUE
    /\ call = Idle
    /\ parked = Idle
    /\ watcher = Unused
    /\ background = Unused
    /\ \E url \in { {}, {Url} }, autoSync \in BOOLEAN :
          /\ remote = RemoteStart(url, autoSync)
          /\ sync = [ SyncStart(Tree(url, IF url = {} THEN {"l"} ELSE {"r"}))
                        EXCEPT !.initialized = TRUE ]

RemoteNext ==
    \/ CommitCall
    \/ SuperCommit
    \/ AutoPush
    \/ SyncCall
    \/ SyncStatus
    \/ PushReturns
    \/ Fetch
    \/ Status
    \/ Merge
    \/ ResolveStatus
    \/ ResolveFileConflict
    \/ StageAndCommit
    \/ HardReset
    \/ Push
    \/ RemoteCommit

RemoteSpec == RemoteInit /\ [][RemoteNext]_vars

----------------------------------------------------------------------------
(* The Reconciler next to the Entity Store.  The watcher sees the files    *)
(* the store writes and removes.  A handler runs from one await to the     *)
(* next: it reads and parses the file, then calls the index (for a change  *)
(* event collection.delete, then collection.add), and the store's own      *)
(* index call runs its delete and its add as two steps too.                *)

ReconcileInputs ==
    [ titles   |-> { <<"A">> },
      contents |-> { <<"x">> },
      types    |-> { <<"w">> },
      metas    |-> { EmptyMap },
      dirs     |-> { <<>> },
      updates  |-> { [content |-> <<"y">>] },
      uuids    |-> << <<"p1", "r1">>, <<"p2", "r1">> >>,
      autoCommits |-> {FALSE},
      faults   |-> FALSE ]

\* The event chokidar emits for the file operation of a call.
EventKind(c, tree) ==
    IF c.op = "delete" THEN "unlink"
    ELSE IF c.path \in DOMAIN tree THEN "change" ELSE "add"

\* writeContext / unlink of a call, seen by the watcher.
WatchedFileStep ==
    /\ call.pc = "file"
    /\ files' = IF call.op = "delete" THEN Unlink(files, call.path)
                ELSE WriteContext(files, call.path, call.ctx)
    /\ call' = [call EXCEPT !.pc = "index", !.fs = "ok"]
    /\ watcher' = Emit(watcher, EventKind(call, files), call.path)
    /\ UNCHANGED <<index, now, issued, autoCommit, sync, parked, background, remote>>

\* The store's index call, first step: removeContext (delete), or the
\* removeContext that updateContext begins with.
StoreIndexRemove ==
    /\ call.pc = "index"
    /\ call.op \in {"update", "delete"}
    /\ index' = IndexRemove(index, IF call.op = "delete" THEN call.id
                                   ELSE call.ctx.metadata.id)
    /\ call' = IF call.op = "delete" THEN AfterIndex(call, "ok")
               ELSE [call EXCEPT !.pc = "add"]
    /\ UNCHANGED <<files, now, issued, autoCommit, sync,
                   parked, watcher, background, remote>>

\* The store's index call, the add: addContext (create), or the addContext
\* that updateContext ends with.
StoreIndexAdd ==
    /\ \/ call.op = "create" /\ call.pc = "index"
       \/ call.op = "update" /\ call.pc = "add"
    /\ index' = IndexAdd(index, call.ctx)
    /\ call' = AfterIndex(call, "ok")
    /\ UNCHANGED <<files, now, issued, autoCommit, sync,
                   parked, watcher, background, remote>>

\* The handler has ended.
HandlerDone(h, out) == [NoHandler EXCEPT !.kind = h.kind, !.path = h.path, !.out = out]

\* The open watcher emits an event and its handler starts: handleFileDelete
\* and a handler for a file that is no markdown return, the others call
\* parseContextFile.
HandlerStarts ==
    \E event \in watcher.events :
        /\ watcher # Unused
        /\ IsRunning(watcher)
        /\ watcher.handler.pc = "idle"
        /\ watcher' =
              [ Handled(watcher, event) EXCEPT !.handler =
                  IF event[1] = "unlink" \/ ~EndsWith(event[2], <<".md">>)
                  THEN HandlerDone([kind |-> event[1], path |-> event[2]], "logged")
                  ELSE [ NoHandler EXCEPT !.kind = event[1], !.pc = "read",
                                          !.path = event[2] ] ]
        /\ UNCHANGED <<files, index, now, issued, autoCommit, call, sync,
                       parked, background, remote>>

\* parseContextFile settles: the entity the file holds now, or null; then
\* the handler calls addContext or updateContext.
HandlerReads ==
    LET h == watcher.handler
        context == ParseContextFile(files, h.path)
    IN  /\ watcher # Unused
        /\ h.pc = "read"
        /\ watcher' = [watcher EXCEPT !.handler =
                          IF context = NoCtx
                          THEN HandlerDone(h, "null")
                          ELSE [h EXCEPT !.ctx = context,
                                         !.pc = IF h.kind = "change" THEN "remove"
                                                ELSE "add"]]
        /\ UNCHANGED <<files, index, now, issued, autoCommit, call, sync,
                       parked, background, remote>>

\* updateContext of handleFileChange: removeContext; its error is logged.
HandlerRemoves ==
    \E outcome \in IndexOutcomes :
        LET h == watcher.handler
        IN  /\ watcher # Unused
            /\ h.pc = "remove"
            /\ index' = IF outcome = "ok" THEN IndexRemove(index, h.ctx.metadata.id)
                        ELSE index
            /\ watcher' = [watcher EXCEPT !.handler =
                              IF outcome = "ok" THEN [h EXCEPT !.pc = "add"]
                              ELSE HandlerDone(h, "threw")]
            /\ UNCHANGED <<files, now, issued, autoCommit, call, sync,
                           parked, background, remote>>

\* addContext of handleFileAdd, or the one updateContext ends with; its
\* error is logged.
HandlerAdds ==
    \E outcome \in IndexOutcomes :
        LET h == watcher.handler
        IN  /\ watcher # Unused
            /\ h.pc = "add"
            /\ index' = IF outcome = "ok" THEN IndexAdd(index, h.ctx) ELSE index
            /\ watcher' = [watcher EXCEPT !.handler =
                              HandlerDone(h, IF outcome # "ok" THEN "threw"
                                             ELSE IF h.ctx.metadata.id \in DOMAIN index
                                             THEN "present" ELSE "added")]
            /\ UNCHANGED <<files, now, issued, autoCommit, call, sync,
                           parked, background, remote>>

(* The Entity Store with its Reconciler.                                   *)

ReconcileInit ==
    /\ files = EmptyMap
    /\ index = EmptyMap
    /\ now = 0
    /\ issued = {}
    /\ autoCommit \in ReconcileInputs.autoCommits
    /\ call = Idle
    /\ sync = NoSync
    /\ parked = Idle
    /\ watcher = WatcherInit
    /\ background = Unused
    /\ remote = Unused

ReconcileNext ==
    \/ StartFileWatcher
    \/ StopFileWatcher
    \/ CreateCall(ReconcileInputs)
    \/ UpdateCall(ReconcileInputs)
    \/ DeleteCall
    \/ WatchedFileStep
    \/ StoreIndexRemove
    \/ StoreIndexAdd
    \/ HandlerStarts
    \/ HandlerReads
    \/ HandlerRemoves
    \/ HandlerAdds

ReconcileSpec == ReconcileInit /\ [][ReconcileNext]_vars

----------------------------------------------------------------------------
(* The callers of RemoteGitStore.pull(): ContextStore.initialize, the      *)
(* callback of the background sync interval and syncWithRemote (through    *)
(* sync()), for a store with remote URL and auto-sync configured.          *)
(* background.initialize and background.sync are the positions of the two  *)
(* calls, background.ticks counts the interval callbacks that await        *)
(* pull(), background.interval is this.backgroundSyncInterval.             *)

\* The interval callbacks the model lets await pull() at a time.
MaxTicks == 2

PullersInit ==
    [ interval |-> "undefined", initialize |-> "idle", sync |-> "idle",
      ticks |-> 0, last |-> "none" ]

\* The calls of pull() that have not settled.
PullsInProgress(b) ==
    b.ticks + (IF b.initialize = "pull" THEN 1 ELSE 0)
            + (IF b.sync = "pull" THEN 1 ELSE 0)

\* initialize(): gitStore.initialize has returned, await gitStore.pull().
InitializePulls ==
    /\ background.initialize \in {"idle", "done"}
    /\ background' = [background EXCEPT !.initialize = "pull", !.last = "initialize"]
    /\ UNCHANGED <<files, index, now, issued, autoCommit, call, sync,
                   parked, watcher, remote>>

\* initialize(): its pull() has settled, await vectorStore.initialize().
InitializePulled ==
    /\ background.initialize = "pull"
    /\ background' = [background EXCEPT !.initialize = "vector"]
    /\ UNCHANGED <<files, index, now, issued, autoCommit, call, sync,
                   parked, watcher, remote>>

\* initialize(): the vector store is up and startBackgroundSync sets the
\* interval, or it is not and the catch logs.
InitializeReturns ==
    \E vector \in {"ok", "fail"} :
        /\ background.initialize = "vector"
        /\ background' = [background EXCEPT
                             !.initialize = "done",
                             !.interval = IF vector = "ok" THEN "Timeout" ELSE @]
        /\ UNCHANGED <<files, index, now, issued, autoCommit, call, sync,
                       parked, watcher, remote>>

\* The interval fires: setInterval calls the callback, which awaits
\* gitStore.pull(), whatever else is in progress.
IntervalFires ==
    /\ background.interval = "Timeout"
    /\ background.ticks < MaxTicks
    /\ background' = [background EXCEPT !.ticks = @ + 1, !.last = "tick"]
    /\ UNCHANGED <<files, index, now, issued, autoCommit, call, sync,
                   parked, watcher, remote>>

\* The pull() of a callback settles.
TickPulled ==
    /\ background.ticks > 0
    /\ background' = [background EXCEPT !.ticks = @ - 1]
    /\ UNCHANGED <<files, index, now, issued, autoCommit, call, sync,
                   parked, watcher, remote>>

\* syncWithRemote(): gitStore.sync() awaits pull().
SyncWithRemote ==
    /\ background.sync = "idle"
    /\ background' = [background EXCEPT !.sync = "pull", !.last = "sync"]
    /\ UNCHANGED <<files, index, now, issued, autoCommit, call, sync,
                   parked, watcher, remote>>

\* syncWithRemote(): sync() goes from its pull() to git.status() and
\* push(), and syncWithRemote from sync() to the index rebuild and returns.
SyncAdvances ==
    /\ background.sync # "idle"
    /\ background' = [background EXCEPT !.sync =
                         CASE @ = "pull" -> "push"
                           [] @ = "push" -> "rebuild"
                           [] OTHER -> "idle"]
    /\ UNCHANGED <<files, index, now, issued, autoCommit, call, sync,
                   parked, watcher, remote>>

\* stopBackgroundSync(): clearInterval.  Callbacks that await pull() go on.
IntervalCleared ==
    /\ background.interval = "Timeout"
    /\ background' = [background EXCEPT !.interval = "undefined", !.last = "stop"]
    /\ UNCHANGED <<files, index, now, issued, autoCommit, call, sync,
                   parked, watcher, remote>>

PullersInitState ==
    /\ files = EmptyMap
    /\ index = EmptyMap
    /\ now = 0
    /\ issued = {}
    /\ autoCommit = FALSE
    /\ call = Idle
    /\ sync = NoSync
    /\ parked = Idle
    /\ watcher = Unused
    /\ background = PullersInit
    /\ remote = Unused

PullersNext ==
    \/ InitializePulls
    \/ InitializePulled
    \/ InitializeReturns
    \/ IntervalFires
    \/ TickPulled
    \/ SyncWithRemote
    \/ SyncAdvances
    \/ IntervalCleared

PullersSpec == PullersInitState /\ [][PullersNext]_vars

----------------------------------------------------------------------------
(* Properties of the Sync Manager.                                         *)

PullDone == sync.op = "pull" /\ sync.pc = "done"

PullReturns == sync.op = "pull" /\ sync.pc # "done" /\ sync'.pc = "done"

C3_PullNeverThrows ==
    sync.op = "pull" => sync.result # "rejected"

\* The hard reset failed, and pull returned.
C3_Witness ==
    PullDone /\ sync.out = "resetFail" /\ sync.result = "returned"

\* C4: an invocation of initialize() starts bootstrap-replace (its backup)
\* only if there is no repository or the origin differs from the configured
\* URL, unless reading the remotes failed.
C4_ReplaceOnlyWhenOriginDiffers ==
    [][ (/\ sync'.stack # <<>>
         /\ sync'.stack[Len(sync'.stack)] = "backup"
         /\ sync'.stack # sync.stack
         /\ sync'.out # "remotesFail") =>
            Origin(sync.tree) # {Url}
      ]_vars

Entered(pc) ==
    /\ Len(sync'.stack) = Len(sync.stack)
    /\ sync'.stack # <<>>
    /\ sync'.stack[Len(sync'.stack)] = pc
    /\ sync.stack[Len(sync.stack)] # pc

\* C5: bootstrap-replace runs backup, wipe, clone, skeleton in this order;
\* the wipe starts only after the backup step ended without error; no step
\* copies or removes .llmem; entries leave the working tree only in the
\* wipe, and every entry removed has a copy in the backup folder.
C5_BackupBeforeWipe ==
    [][ /\ sync'.wiped \subseteq sync'.backups
        /\ \A e \in sync'.wiped \cup sync'.backups : e[1] # ".llmem"
        /\ ".llmem" \in DOMAIN sync.tree => ".llmem" \in DOMAIN sync'.tree
        /\ (DOMAIN sync.tree) \ (DOMAIN sync'.tree) # {} => AtFrame("wipe")
        /\ Entered("wipe") => AtFrame("backup") /\ sync'.out \in {"backup", "noBackup"}
        /\ Entered("clone") => AtFrame("wipe")
        /\ Entered("skeleton") => AtFrame("clone")
      ]_vars

\* The repository of another origin was backed up, wiped and replaced.
C5_Witness ==
    /\ AtFrame("skeleton")
    /\ sync.wiped = { <<".git", {OtherUrl}>>, <<"f", {"l"}>> }
    /\ sync.wiped \subseteq sync.backups
    /\ Origin(sync.tree) = {Url}

\* C6: a call of initialize() during which the bootstrap clone failed
\* rejects, and push and pull never reject.
C6_CloneFailureIsFatal ==
    /\ (sync.op = "initialize" /\ sync.pc = "done" /\ "cloneFail" \in sync.flags) =>
           sync.result = "rejected"
    /\ sync.op \in {"pull", "push"} => sync.result # "rejected"

----------------------------------------------------------------------------
(* Properties of the Entity Store.                                         *)

\* The file tree shows the mutation of call c: the file written or
\* rewritten holds the entity, the file deleted is gone.
ShowsMutation(tree, c) ==
    IF c.op = "delete" THEN c.path \notin DOMAIN tree
    ELSE c.path \in DOMAIN tree /\ tree[c.path] = Stringify(c.ctx)

\* C1: when the index call of create, update or delete throws, the handler
\* goes on as if it had not (to the commit, or to its normal result: the
\* entity, the updated entity, true), a call that met an index error and no
\* commit error returns its normal result, and the tree shows the mutation.
C1_IndexErrorNeverFailsTheCall ==
    [][ /\ (call.pc = "index" /\ call'.idx \in IndexThrows) =>
              /\ ShowsMutation(files', call)
              /\ \/ call'.pc = "commit"
                 \/ call'.pc = "idle" /\ call'.kind = NormalResult(call.op)
        /\ (call.pc = "commit" /\ call.idx \in IndexThrows /\ call'.git # "fail") =>
              /\ ShowsMutation(files', call)
              /\ call'.pc = "idle" /\ call'.kind = NormalResult(call.op)
      ]_vars

C1_Witness ==
    /\ call.pc = "idle" /\ call.op = "update" /\ call.idx = "throwAdd"
    /\ call.git = "ok" /\ call.kind = "entity"
    /\ call.path \in DOMAIN files
    /\ files[call.path].body = <<"y", "\n">>

\* C7: no two entity files carry the same id, and a file update rewrites
\* carries the id it carried before.
C7_IdsUniqueAndStable ==
    [][ /\ \A p, q \in DOMAIN files' :
              p # q => files'[p].data.id # files'[q].data.id
        /\ (call.op = "update" /\ call.pc = "file") =>
              \A p \in (DOMAIN files) \cap (DOMAIN files') :
                  files'[p].data.id = files[p].data.id
      ]_vars

\* C10: read(id) returns the entity whose id is id, and null exactly when
\* no stored entity has that id.
C10_ReadFindsExactId ==
    \A id \in Ids :
        /\ Read(files, id) # NoCtx => Read(files, id).metadata.id = id
        /\ Read(files, id) = NoCtx => \A p \in DOMAIN files : files[p].data.id # id

\* C8: update of an existing entity with a title, type, tags or content
\* partial stamps the entity with the time of the call, rewrites the
\* entity's file and touches no other path, and a read that follows yields
\* the id, the created timestamp and the filepath the entity had before,
\* and the new updated timestamp.
C8_UpdateInPlace ==
    [][ /\ (call.pc = "idle" /\ call'.op = "update" /\ call'.pc = "file") =>
              /\ call'.ctx.metadata.updated = now
              /\ call'.existing = Read(files, call'.id)
        /\ (call.op = "update" /\ call.pc = "file") =>
              /\ DOMAIN files' = DOMAIN files
              /\ \A p \in DOMAIN files : p # call.path => files'[p] = files[p]
        /\ (call.op = "update" /\ call.pc # "idle" /\ call'.pc = "idle"
                /\ call'.kind = "entity") =>
              LET after == Read(files', call.id)
              IN  /\ after # NoCtx
                  /\ after.metadata.id = call.existing.metadata.id
                  /\ after.metadata.created = call.existing.metadata.created
                  /\ after.filepath = call.existing.filepath
                  /\ after.metadata.updated = call.ctx.metadata.updated
                  /\ after.metadata.updated >= call.existing.metadata.updated
      ]_vars

\* The title and the type were changed, on a later tick than the creation.
C8_Witness ==
    /\ call.pc = "idle" /\ call.op = "update" /\ call.kind = "entity"
    /\ \E p \in DOMAIN files :
          /\ files[p].data.title = <<"A">>
          /\ files[p].data.type = <<"w">>
          /\ files[p].data.created = 0
          /\ files[p].data.updated = 1
          /\ p = <<"w", "/", "p", "/", "a", "-", "b", "-", "p1", ".md">>

\* C9: the file update writes holds partial.content whenever the partial
\* has a content, the empty string included, and the previous content when
\* it has none; metadata fields the partial does not name keep their values.
C9_ContentReplacedWhenGiven ==
    [][ (call.op = "update" /\ call.pc = "file" /\ call.path \in DOMAIN files') =>
            LET after == Parse(files'[call.path], call.path)
                named == IF "metadata" \in DOMAIN call.upd
                         THEN DOMAIN call.upd.metadata ELSE {}
            IN  /\ after.content = IF "content" \in DOMAIN call.upd
                                   THEN call.upd.content
                                   ELSE call.existing.content
                /\ \A k \in (DOMAIN call.existing.metadata) \ (named \cup {"updated"}) :
                       after.metadata[k] = call.existing.metadata[k]
      ]_vars

\* No stored entity carries the id.
Unknown(tree, id) == \A p \in DOMAIN tree : tree[p].data.id # id

NotFoundResult(op) == IF op = "delete" THEN "false" ELSE "null"

\* C11: read, update and delete of an id no stored entity carries return
\* null, null and false at once, without throwing, and leave the file tree
\* and the index alone and commit nothing; delete of an id a stored entity
\* carries goes on to remove the file, and when it returns (no file system
\* or git error) it returns true, the file is gone and read(id) is null.
C11_NotFoundAndDelete ==
    [][ /\ (/\ call.pc = "idle"
            /\ call'.op \in {"read", "update", "delete"}
            /\ Unknown(files, call'.id)) =>
               /\ call'.pc = "idle" /\ call'.kind = NotFoundResult(call'.op)
               /\ files' = files /\ index' = index /\ call'.git = "none"
        /\ (/\ call.pc = "idle"
            /\ call'.op = "delete"
            /\ ~Unknown(files, call'.id)) =>
               call'.pc = "file"
        /\ (/\ call.op = "delete" /\ call.pc # "idle"
            /\ call'.pc = "idle" /\ call'.kind # "rejected") =>
               /\ call'.kind = "true"
               /\ call.path \notin DOMAIN files'
               /\ Read(files', call.id) = NoCtx
      ]_vars

\* The stored entity satisfies the filter as the claim reads it: a type
\* that is given, the empty string included, is the entity's type, and
\* every required tag is among the entity's tags.
Satisfies(filter, data) ==
    /\ "type" \in DOMAIN filter => data.type = filter.type
    /\ "tags" \in DOMAIN filter =>
          \A i \in 1..Len(filter.tags) : filter.tags[i] \in Range(data.tags)

Listed(list) == { list[i].filepath : i \in 1..Len(list) }

\* C12: list(filter) returns, each once and as parsed from its file,
\* exactly the stored entities whose type is the filter's type when one is
\* given (any string, the empty one included) and whose tags contain every
\* tag of the filter when tags are given.
C12_ListExactFilter ==
    call.op = "list" =>
        /\ Listed(call.ctx.list) =
              { p \in DOMAIN files : Satisfies(call.upd, files[p].data) }
        /\ Cardinality(Listed(call.ctx.list)) = Len(call.ctx.list)
        /\ \A i \in 1..Len(call.ctx.list) :
              call.ctx.list[i] =
                  Parse(files[call.ctx.list[i].filepath], call.ctx.list[i].filepath)

C14_ListingFollowsMetadata ==
    [][ (/\ call.op = "update" /\ call.pc = "file" /\ call'.pc = "index"
         /\ "metadata" \in DOMAIN call.upd
         /\ "type" \in DOMAIN call.upd.metadata
         /\ call.upd.metadata.type # call.existing.metadata.type
         /\ call.path = GenerateFilepath(call.existing, <<>>)) =>
            /\ call.path \in Listed(List(files', [type |-> call.upd.metadata.type]))
            /\ call.path \notin Listed(List(files', [type |-> call.existing.metadata.type]))
            /\ Read(files', call.id) # NoCtx
            /\ Read(files', call.id).filepath = call.path
            /\ Read(files', call.id).metadata.type = call.upd.metadata.type
      ]_vars

----------------------------------------------------------------------------
(* Properties of the retrieval.                                            *)

Keys(results) == { KeyOf(results[i]) : i \in 1..Len(results) }

EntriesOf(results, id) == { i \in 1..Len(results) : KeyOf(results[i]) = id }

\* C15: in the fused results of a search that cuts nothing off, an id both
\* channels hit has one entry, hybrid, scored semantic * semanticWeight +
\* text * exactMatchBoost; an id only the semantic channel hit has one
\* entry, semantic, scored semantic * semanticWeight; an id only the text
\* channel hit has one entry, exact, scored text * exactMatchBoost; no
\* other id has an entry.
C15_Fusion ==
    (call.op = "search" /\ call.kind = "fused" /\ "limit" \notin DOMAIN call.upd.options) =>
        LET vec == call.ctx.vector.hits
            text == PerformTextSearch(call.upd.query, call.ctx.all)
            res == call.ctx.engine.results
            w == Option(call.upd.options, "semanticWeight", DefaultSemanticWeight)
            b == Option(call.upd.options, "exactMatchBoost", DefaultExactMatchBoost)
        IN  /\ Keys(res) = Keys(vec) \cup Keys(text)
            /\ \A id \in Keys(res) : Cardinality(EntriesOf(res, id)) = 1
            /\ \A r \in Range(res) :
                  LET id == KeyOf(r)
                  IN  /\ (id \in Keys(vec) /\ id \in Keys(text)) =>
                             /\ r.matchType = "hybrid"
                             /\ \A v \in Range(vec), x \in Range(text) :
                                    (KeyOf(v) = id /\ KeyOf(x) = id) =>
                                        r.score = Times(v.score, w) + Times(x.score, b)
                      /\ (id \in Keys(vec) /\ id \notin Keys(text)) =>
                             /\ r.matchType = "semantic"
                             /\ \A v \in Range(vec) :
                                    KeyOf(v) = id => r.score = Times(v.score, w)
                      /\ (id \notin Keys(vec) /\ id \in Keys(text)) =>
                             /\ r.matchType = "exact"
                             /\ \A x \in Range(text) :
                                    KeyOf(x) = id => r.score = Times(x.score, b)

\* C16: the results HybridSearch.search returns, fused or text-only, are
\* in the order of non-increasing score and at most limit (10 when none is
\* given), and no result left out scores higher than one returned.
C16_SortedAndLimited ==
    (call.op = "search" /\ call.kind \in {"fused", "text"}) =>
        LET res == call.ctx.engine.results
            text == PerformTextSearch(call.upd.query, call.ctx.all)
            all == IF call.kind = "text" THEN text
                   ELSE CombineResults(
                            call.ctx.vector.hits, text,
                            Option(call.upd.options, "semanticWeight", DefaultSemanticWeight),
                            Option(call.upd.options, "exactMatchBoost", DefaultExactMatchBoost))
        IN  /\ Len(res) <= Option(call.upd.options, "limit", DefaultLimit)
            /\ \A i \in 1..(Len(res) - 1) : res[i].score >= res[i + 1].score
            /\ Range(res) \subseteq Range(all)
            /\ \A out \in Range(all) \ Range(res), in \in Range(res) :
                  out.score <= in.score

\* C17: when the semantic channel throws, HybridSearch.search returns and
\* does not throw, every entry it returns is exact, and every entity it
\* returns is one of the corpus for which the Scorer has a match.
C17_SemanticFailureFallsBack ==
    (/\ call.op = "search" /\ call.pc = "idle"
     /\ call.ctx.vector.throws /\ "failed" \notin DOMAIN call.ctx.engine) =>
        /\ call.ctx.engine.kind = "text"
        /\ call.kind = "text"
        /\ \A r \in Range(call.ctx.engine.results) :
              /\ r.matchType = "exact"
              /\ r.context \in Range(call.ctx.all)
              /\ \/ TitleMatch(call.upd.query, r.context)
                 \/ ContentMatch(call.upd.query, r.context)
                 \/ TagMatch(call.upd.query, r.context)
                 \/ Len(WordMatches(call.upd.query, r.context)) > 0

\* The semantic channel threw, and the search returned both entities.
C17_Witness ==
    /\ call.op = "search" /\ call.pc = "idle" /\ call.kind = "text"
    /\ call.ctx.vector.throws
    /\ Len(call.ctx.engine.results) = 2
    /\ Len(call.ctx.list) = 2

\* The string is found in the title, the content or a tag of the entity.
FoundIn(context, s) ==
    \/ Includes(ToLowerCase(context.metadata.title), s)
    \/ Includes(ToLowerCase(context.content), s)
    \/ \E tag \in Range(context.metadata.tags) : Includes(ToLowerCase(tag), s)

\* The number of the query's tokens, and of those longer than 2 characters
\* that are found in the entity.
Tokens(query) == SplitWhitespace(ToLowerCase(query))

TokensFound(query, context) ==
    Cardinality({ i \in 1..Len(Tokens(query)) :
                    Len(Tokens(query)[i]) > 2 /\ FoundIn(context, Tokens(query)[i]) })

\* C18: the text score of an entity is 1.0 if the lowercased query is in
\* the lowercased title, plus 0.8 if in the content, plus 0.6 if in a tag,
\* plus 0.4 * (tokens longer than 2 characters found in title, content or
\* tags) / (all tokens of the query, as split(/\s+/) yields them), and the
\* entity is among the text hits exactly when one of the four is not zero.
C18_ScorerRule ==
    (call.op = "performTextSearch" /\ call.pc = "idle") =>
        \A context \in Range(call.ctx.all) :
            LET q == call.upd.query
                title == IF Includes(ToLowerCase(context.metadata.title), ToLowerCase(q))
                         THEN ScoreUnit ELSE 0
                content == IF Includes(ToLowerCase(context.content), ToLowerCase(q))
                           THEN (8 * ScoreUnit) \div 10 ELSE 0
                tag == IF \E g \in Range(context.metadata.tags) :
                              Includes(ToLowerCase(g), ToLowerCase(q))
                       THEN (6 * ScoreUnit) \div 10 ELSE 0
                words == (4 * ScoreUnit * TokensFound(q, context))
                             \div (10 * Len(Tokens(q)))
                hits == { r \in Range(call.ctx.results) : r.context = context }
            IN  /\ (hits # {}) <=> (title + content + tag + words > 0)
                /\ \A r \in hits :
                      /\ r.score = title + content + tag + words
                      /\ r.matchType = "exact"
                /\ Len(call.ctx.results) <= 1

\* A query of three tokens, one of them short: the title and the content
\* hold a token each, nothing holds the phrase.
C18_Witness ==
    /\ call.op = "performTextSearch" /\ call.pc = "idle"
    /\ Len(Tokens(call.upd.query)) = 3
    /\ Len(call.ctx.results) = 1
    /\ call.ctx.results[1].score = (4 * ScoreUnit * 2) \div 30
    /\ call.ctx.all[1].metadata.title = <<"A", "a", "b">>

\* C19: search never rejects, and when the call of the engine fails as a
\* whole it returns the stored entities whose title, content or some tag
\* contains the query, letter case aside.
C19_SearchNeverThrows ==
    (call.op = "search" /\ call.pc = "idle") =>
        /\ call.kind # "rejected"
        /\ "failed" \in DOMAIN call.ctx.engine =>
              /\ call.kind = "naive"
              /\ Listed(call.ctx.list) =
                    { p \in DOMAIN files :
                        FoundIn(Parse(files[p], p), ToLowerCase(call.upd.query)) }
              /\ \A c \in Range(call.ctx.list) : c = Parse(files[c.filepath], c.filepath)

\* The engine call failed and the fallback found an entity.
C19_Witness ==
    /\ call.op = "search" /\ call.pc = "idle" /\ call.kind = "naive"
    /\ "failed" \in DOMAIN call.ctx.engine
    /\ Len(call.ctx.list) = 1
    /\ Cardinality(DOMAIN files) = 2

\* C20: a search called with limit L returns at most L entities, whichever
\* way it took.
C20_SearchRespectsLimit ==
    (call.op = "search" /\ call.pc = "idle" /\ "limit" \in DOMAIN call.upd.options) =>
        Len(call.ctx.list) <= call.upd.options.limit

----------------------------------------------------------------------------
(* Properties of the Index Reconciler.                                     *)

\* The unlink handler runs for an event.
HandlesUnlink ==
    \E event \in watcher.events :
        event[1] = "unlink" /\ watcher' = Handled(watcher, event)

\* C21: the unlink handler leaves the index as it is, whatever the removed
\* path: a markdown file or not, with an id suffix in its name or without.
C21_UnlinkLeavesIndex ==
    [][ HandlesUnlink => index' = index ]_vars

\* The file of an indexed entity was removed, the handler has run for it,
\* and the entry of the entity is still in the index.
C21_Witness ==
    /\ watcher.handled = <<"unlink", <<"w", "/", "a", "-", "p1", ".md">> >>
    /\ watcher.events = {}
    /\ <<"p1", "r1">> \in DOMAIN index
    /\ \A p \in DOMAIN files : files[p].data.id # <<"p1", "r1">>

\* C22: there is at most one open watcher, it is open exactly when
\* isRunning() holds, and isRunning() holds exactly when the last call of
\* start() or stop() was start().
C22_AtMostOneWatchHandle ==
    /\ watcher.open <= 1
    /\ IsRunning(watcher) <=> watcher.open = 1
    /\ IsRunning(watcher) <=> watcher.last = "start"

\* start() was called while the watcher was running.
C22_Witness ==
    /\ watcher.last = "start" /\ watcher.warned
    /\ IsRunning(watcher) /\ watcher.open = 1

----------------------------------------------------------------------------
(* Properties of the steps of one Entity Store call.                       *)

\* C23: within a create, update or delete the file changes only in the
\* file step, before the index call and the commit; the index call runs
\* when the tree shows the mutation; the commit runs when the index call
\* has completed or failed, and the tree shows the mutation.
C23_FileThenIndexThenCommit ==
    [][ /\ files' # files =>
              call.pc = "file" /\ call.idx = "none" /\ call.git = "none"
        /\ (call.pc = "index" /\ call'.pc # "index") =>
              ShowsMutation(files, call) /\ call.git = "none"
        /\ index' # index => call.pc = "index"
        /\ call'.pc = "commit" => call'.idx # "none"
        /\ (call.git = "none" /\ call'.git # "none") =>
              /\ call.pc = "commit"
              /\ call.idx # "none"
              /\ ShowsMutation(files, call)
      ]_vars

\* An update whose index call failed between remove and add, and whose
\* commit was made after it.
C23_Witness ==
    /\ call.pc = "idle" /\ call.op = "update" /\ call.kind = "entity"
    /\ call.idx = "throwAdd" /\ call.git = "ok"

\* C27: with auto-commit, a commit that fails with 'nothing to commit' lets
\* create, update and delete return their normal result, and any other
\* failure of the commit rejects the call.
C27_OnlyNothingToCommitIsSwallowed ==
    [][ (call.pc = "commit" /\ call'.pc = "idle") =>
            /\ autoCommit
            /\ call'.git = "nothing" => call'.kind = NormalResult(call.op)
            /\ call'.git = "fail" => call'.kind = "rejected"
      ]_vars

\* A delete whose commit found nothing to commit returned true.
C27_Witness ==
    /\ autoCommit
    /\ call.pc = "idle" /\ call.op = "delete"
    /\ call.git = "nothing" /\ call.kind = "true"

----------------------------------------------------------------------------
(* Properties of concurrent Entity Store calls.                            *)

\* The id of the entity a call is about.
Target(c) == IF c.op = "create" THEN c.ctx.metadata.id ELSE c.id

\* The call is at its file operation.
AtFile(c) == c.pc \in {"file", "write"}

\* C24: when an update completes its write while another update of the same
\* id is in progress, the file holds the complete entity of the update that
\* wrote: what it read, with its own changes, and nothing of the other's.
C24_LastWriteWins ==
    [][ (/\ call.op = "update" /\ AtFile(call) /\ call'.pc = "index"
         /\ parked.op = "update" /\ parked.pc # "idle" /\ parked.id = call.id
         /\ parked' = parked) =>
            /\ call.path \in DOMAIN files'
            /\ files'[call.path] = Stringify(call.ctx)
      ]_vars

\* C25: two calls that are at their file operations for different ids are
\* at different files, and a file operation changes no file but its own.
C25_DifferentIdsDisjointFiles ==
    [][ (/\ AtFile(call) /\ AtFile(parked)
         /\ Target(call) # Target(parked)) =>
            /\ call.path # parked.path
            /\ \A p \in (DOMAIN files) \cup (DOMAIN files') :
                   p # call.path =>
                       /\ p \in DOMAIN files /\ p \in DOMAIN files'
                       /\ files'[p] = files[p]
      ]_vars

----------------------------------------------------------------------------
(* Properties of the background activities.                                *)

NothingRuns == background.interval = "undefined" /\ ~IsRunning(watcher)

\* C26: there is at most one sync timer, and it is the one the store
\* holds; cleanup() leaves no timer and no open watcher; cleanup(),
\* stopBackgroundSync() and stopFileWatcher() change nothing when neither
\* the timer nor the watcher runs.
C26_ShutdownIsIdempotent ==
    /\ [](/\ background.timers <= 1
          /\ background.interval # "undefined" <=> background.timers = 1)
    /\ [][ Cleanup =>
              /\ background'.timers = 0
              /\ background'.interval = "undefined"
              /\ watcher'.open = 0
              /\ ~IsRunning(watcher')
         ]_vars
    /\ [][ (NothingRuns /\ (Cleanup \/ StopBackgroundSyncCall \/ StopFileWatcher)) =>
              /\ background'.timers = background.timers
              /\ background'.interval = background.interval
              /\ background'.callback = background.callback
              /\ watcher'.watcher = watcher.watcher
              /\ watcher'.open = watcher.open
         ]_vars

\* cleanup() has stopped the timer and the watcher of a store that
\* initialize() had started.
C26_Witness ==
    /\ background.op = "cleanup"
    /\ background.released = {"timer", "watcher"}
    /\ background.timers = 0 /\ watcher.open = 0
    /\ watcher.last = "stop"

----------------------------------------------------------------------------
(* Properties of commit() and sync().                                      *)

LocalCommitDone == remote.local \in {"ok", "nothing"}

\* C28: commit() calls push() only after its local commit step has
\* returned, and then exactly if a remote URL is configured and auto-sync
\* is on; a push that fails leaves the tree and the branch as the local
\* commit left them, and commit() returns; commit() rejects only if the
\* local commit threw.
C28_CommitThenPush ==
    /\ [][ AutoPush =>
              /\ LocalCommitDone
              /\ remote'.pushed <=> (remote.url # {} /\ remote.autoSync)
         ]_vars
    /\ [][ (remote.op = "commit" /\ Push) => remote.pushed /\ LocalCommitDone ]_vars
    /\ [][ (remote.op = "commit" /\ Push /\ sync'.out = "pushFail") =>
              /\ sync'.tree = sync.tree
              /\ sync'.rel = sync.rel
              /\ sync'.result = "returned"
         ]_vars
    /\ []((remote.op = "commit" /\ remote.pc = "done") =>
              /\ remote.result = "rejected" <=> remote.local = "fail"
              /\ LocalCommitDone =>
                    (remote.pushed <=> (remote.url # {} /\ remote.autoSync)))

\* commit() made its local commit, its push failed, commit() returned and
\* the commit is still there.
C28_Witness ==
    /\ remote.op = "commit" /\ remote.pc = "done" /\ remote.result = "returned"
    /\ remote.local = "ok" /\ remote.pushed
    /\ sync.out = "pushFail"
    /\ "l" \in F(sync.tree) /\ sync.rel \in {"ahead", "diverged"}

\* C29: sync() calls push() only after its pull() has returned, and then
\* exactly if the local branch is ahead of the remote; no step of push runs
\* while sync() is at its pull; without a remote URL sync() returns without
\* calling pull or push.
C29_SyncPullsThenPushes ==
    /\ [][ SyncStatus =>
              /\ sync.op = "pull" /\ sync.pc = "done" /\ sync.result = "returned"
              /\ remote'.result # "rejected" =>
                    (remote'.pushed <=> sync.rel \in {"ahead", "diverged"})
         ]_vars
    /\ []((remote.op = "sync" /\ remote.pushed) => remote.pulled)
    /\ [][ (remote.op = "sync" /\ Push) => remote.pulled /\ remote.pushed ]_vars
    /\ [][ (SyncCall /\ remote.url = {}) =>
              /\ sync' = sync
              /\ remote'.pc = "done" /\ remote'.result = "returned"
              /\ ~remote'.pulled /\ ~remote'.pushed
         ]_vars

\* sync() pulled, found the local branch ahead, pushed and returned.
C29_Witness ==
    /\ remote.op = "sync" /\ remote.pc = "done" /\ remote.result = "returned"
    /\ remote.pulled /\ remote.pushed
    /\ sync.op = "push" /\ sync.out = "pushed"

----------------------------------------------------------------------------
(* Properties of RemoteGitStore.initialize().                              *)

\* C31: initialize() does not re-enter itself through ensureInitialized()
\* until a limit outside the program stops it: no invocation is cut short
\* by the exhaustion of the call stack.
C31_ReentryIsBounded == sync.out # "overflow"

\* initialize() has returned after it wiped the store directory and cloned
\* the remote into it.
ReplacedAndReturned ==
    /\ sync.op = "initialize" /\ sync.pc = "done" /\ sync.result = "returned"
    /\ sync.wiped # {}
    /\ Origin(sync.tree) = {Url}

\* C32: after initialize() has replaced the local content with the clone
\* the store counts as initialized, and the pull or push called next does
\* not run initialize(), with its backup, wipe and clone, again.
C32_ReplaceRunsOnce ==
    /\ [](ReplacedAndReturned => sync.initialized)
    /\ [][ (ReplacedAndReturned /\ (PullCall \/ PushCall)) => sync'.stack = <<>> ]_vars

----------------------------------------------------------------------------
(* Properties of the file operations of the Entity Store.                  *)

\* create's writeContext has written its file.
CreateWrites == call.op = "create" /\ call.pc = "file" /\ call'.pc = "index"

\* C33: create never overwrites the file of another entity: the path it
\* writes is new, or holds the entity with the id it is creating.
C33_CreateNeverOverwrites ==
    [][ CreateWrites =>
            \/ call.path \notin DOMAIN files
            \/ files[call.path].data.id = call.ctx.metadata.id
      ]_vars

----------------------------------------------------------------------------
(* Properties of the automatic conflict resolution.                        *)

\* A step of pull() takes the local hunk out of the conflicted file.
DiscardsLocal ==
    /\ sync.op = "pull" /\ sync.pc \in {"file", "reset"}
    /\ sync.conflicted
    /\ "l" \in F(sync.tree) /\ "l" \notin F(sync'.tree)

\* C34: the resolution replaces a conflicted file's content by the remote
\* version only if the conflicts folder holds a copy with the local hunks,
\* made before, whether the checkout or the hard reset does the replacing.
C34_NoDiscardWithoutBackup ==
    [][ DiscardsLocal => \E copy \in sync'.conflicts : "l" \in copy ]_vars

----------------------------------------------------------------------------
(* Properties of the Reconciler next to the Entity Store.                  *)

\* No event waits and no handler is in progress.
Quiescent == watcher.events = {} /\ watcher.handler.pc = "idle"

C36_DeletedStaysOut ==
    (call.op = "delete" /\ call.pc = "idle" /\ call.kind = "true" /\ Quiescent)
        => \A i \in DOMAIN index : Matches(files, i) # {}

\* A handler calls the index.
HandlerCallsIndex ==
    /\ watcher.handler.pc \in {"remove", "add"}
    /\ watcher'.handler # watcher.handler

\* C37: a handler calls the index only while the watcher runs: after stop()
\* no handler makes a delete or add call.
C37_NoIndexCallAfterStop ==
    [][ HandlerCallsIndex => IsRunning(watcher) ]_vars

----------------------------------------------------------------------------
(* The background activities and the semantic index.                       *)

\* C38: initialize() returns whether or not the vector store comes up, and
\* with a remote URL and auto-sync configured the store holds the running
\* sync interval when it has returned.
C38_TimerRunsAfterInitialize ==
    [][ (StoreInitialize /\ background.remoteUrl /\ background.autoSync)
            => (background'.op = "initialize" /\ background'.interval = "Timeout"
                /\ background'.timers = 1) ]_vars

----------------------------------------------------------------------------
(* File system errors on the entity file.                                  *)

\* C40: a call whose writeContext (create, update) or unlink (delete) met a
\* file system error has rejected, and it has made no index call and no
\* stage / commit; the failing step leaves file tree and index as they were.
C40_FileErrorPropagates ==
    /\ [](call.fs = "error" =>
            /\ call.pc = "idle" /\ call.kind = "rejected"
            /\ call.idx = "none" /\ call.git = "none")
    /\ [][ (call.pc = "file" /\ call'.fs = "error")
              => (files' = files /\ index' = index) ]_vars

\* With autoCommit on, the unlink of a delete has failed: the entity's file
\* and its index entry are still there.
C40_Witness ==
    /\ call.fs = "error" /\ call.op = "delete"
    /\ autoCommit
    /\ call.path \in DOMAIN files
    /\ index # EmptyMap

----------------------------------------------------------------------------
(* The pulls in progress.                                                  *)

\* C39: at most one pull() is in progress at any time: a callback of the
\* interval starts its pull() only when no pull() is in progress, be it of
\* an earlier callback, of initialize() or of sync().
C39_OnePullAtATime ==
    [][ background'.ticks > background.ticks
            => (PullsInProgress(background) = 0
                /\ PullsInProgress(background') = 1) ]_vars

====
